---------------------------- MODULE Spec2Model ----------------------------
(***************************************************************************)
(* RPAL interpreter: the tree standardizer and the CSE machine.            *)
(*                                                                         *)
(* Trees are first-child/next-sibling nodes held in a heap (a sequence of  *)
(* records, node ids are indices, 0 is Python's None).  Closures, tuples   *)
(* and environments are Python objects and live in heaps of their own, so  *)
(* that sharing by reference and in-place mutation are visible.            *)
(* Python strings that the program can observe (string values) are         *)
(* sequences of one-character strings.                                     *)
(***************************************************************************)
EXTENDS Integers, Sequences, FiniteSets, TLC

(***************************************************************************)
(* Node values.  The parser writes leaves as '<ID:name>', '<INT:digits>',  *)
(* '<STR:lexeme>' (the lexeme keeps its double quotes) and every other     *)
(* node as a bare word ('gamma', 'let', '+', 'nil', ...).                  *)
(***************************************************************************)
ID(n) == [t |-> "ID", name |-> n]

INT(d) == [t |-> "INT", digits |-> d]

STR(l) == [t |-> "STR", lexeme |-> l]

KW(w) == [t |-> "KW", w |-> w]

IsKw(v, w) == v.t = "KW" /\ v.w = w

(* Node(value, left, right) *)
Node(v, l, r) == [value |-> v, left |-> l, right |-> r]

(* allocation of a Node object: its id is the new length of the heap *)
New(h, v, l, r) == [h |-> Append(h, Node(v, l, r)), id |-> Len(h) + 1]

(***************************************************************************)
(* Parser.build_tree: the n children popped from the parser's stack are    *)
(* linked through their right pointers and hung under a new node.  AST(v,  *)
(* kids) is the tree as written; BuildNode lays it out in the heap.        *)
(***************************************************************************)
AST(v, kids) == [v |-> v, kids |-> kids]

(* y, computed after x has been computed: the heap is threaded through the *)
(* recursive walks one finished step at a time                             *)
After(x, y) == IF x = x THEN y ELSE y

Leaf(v) == AST(v, <<>>)

RECURSIVE BuildNode(_, _, _), BuildSeq(_, _, _)
BuildNode(h, t, rightId) ==
    LET k == BuildSeq(h, t.kids, 1)
    IN  After(k, New(k.h, t.v, k.id, rightId))

BuildSeq(h, kids, i) ==
    IF i > Len(kids) THEN [h |-> h, id |-> 0]
    ELSE LET rest == BuildSeq(h, kids, i + 1)
         IN  After(rest, BuildNode(rest.h, kids[i], rest.id))

(***************************************************************************)
(* Parser, for token streams over INTEGER, IDENTIFIER, + - * / **, ( ),    *)
(* let, in, fn, '.', '=' and EOF. p is the parser: tokens,                  *)
(* current_token_index (from 1), token_stack (the node ids, top last), the *)
(* node heap h, and err, the exception raised. The grammar productions     *)
(* that the parser prints as it goes are left out.                         *)
(***************************************************************************)
Token(token_type, lexeme) == [token_type |-> token_type, lexeme |-> lexeme]

NoToken == Token("None", <<>>)

Parser(tokens) ==
    [tokens |-> tokens, current_token_index |-> 1, token_stack |-> <<>>, h |-> <<>>, err |-> ""]

get_current_token(p) ==
    IF p.current_token_index <= Len(p.tokens) THEN p.tokens[p.current_token_index] ELSE NoToken

consume_token(p) == [p EXCEPT !.current_token_index = @ + 1]

SyntaxError(p) == [p EXCEPT !.err = "SyntaxError"]

(* self.token_stack.push(Node(value, left, None)) *)
PushNode(p, value, left) ==
    LET n == New(p.h, value, left, 0)
    IN  [p EXCEPT !.h = n.h, !.token_stack = Append(@, n.id)]

(* the loop of build_tree: child = pop(); child.right = p; p = child *)
RECURSIVE LinkChildren(_, _, _)
LinkChildren(p, num_children, first) ==
    IF num_children = 0 THEN [p |-> p, first |-> first]
    ELSE IF p.token_stack = <<>> THEN [p |-> [p EXCEPT !.err = "AttributeError"], first |-> first]
    ELSE LET child == p.token_stack[Len(p.token_stack)]
         IN  LinkChildren([p EXCEPT !.token_stack = SubSeq(@, 1, Len(@) - 1),
                                    !.h[child].right = first],
                          num_children - 1, child)

build_tree(p, value, num_children) ==
    LET l == LinkChildren(p, num_children, 0)
    IN  IF l.p.err # "" THEN l.p ELSE PushNode(l.p, value, l.first)

(* build_tree after a sub-parse: an exception raised there propagates *)
build_tree_after(p, value, num_children) ==
    IF p.err # "" THEN p ELSE build_tree(p, value, num_children)

(* f"<ID:{token.lexeme}>": the characters of the lexeme, as one string *)
RECURSIVE StrOf(_)
StrOf(chars) == IF chars = <<>> THEN "" ELSE Head(chars) \o StrOf(Tail(chars))

(* a loop that no iteration changes never ends: the call does not return *)
Hang(p) == [p EXCEPT !.err = "nontermination"]

(* Vl -> IDENTIFIER: with no ',' among the tokens the list has one name *)
Vl(p) ==
    LET token == get_current_token(p)
    IN  IF token = NoToken THEN p
        ELSE IF token.token_type = "IDENTIFIER"
        THEN PushNode(consume_token(p), ID(StrOf(token.lexeme)), 0)
        ELSE SyntaxError(p)

(* Vb -> ( Vl ): after Vl, the closing parenthesis *)
VbClose(p) ==
    IF p.err # "" THEN p
    ELSE IF get_current_token(p).token_type = ")" THEN consume_token(p)
    ELSE SyntaxError(p)

(* Vb: on a token that is neither IDENTIFIER nor '(' it returns and has    *)
(* done nothing                                                            *)
Vb(p) ==
    LET token == get_current_token(p)
        after_paren == get_current_token(consume_token(p))
    IN  IF token = NoToken THEN p
        ELSE IF token.token_type = "IDENTIFIER"
        THEN PushNode(consume_token(p), ID(StrOf(token.lexeme)), 0)
        ELSE IF token.token_type = "("
        THEN IF after_paren.token_type = ")"
             THEN build_tree(consume_token(consume_token(p)), KW("()"), 0)
             ELSE IF after_paren = NoToken THEN SyntaxError(consume_token(p))
             ELSE VbClose(Vl(consume_token(p)))
        ELSE p

(* "while token and token.token_type != DOT: self.Vb(); n += 1" in E, and  *)
(* the same loop up to EQUALS in Db: p is the parser after the first Vb, q *)
(* the parser after one more. A Vb that consumed no token leaves the loop  *)
(* where it was.                                                           *)
RECURSIVE VbLoop(_, _, _)
VbStep(p, q, n, until) ==
    IF q.err = "" /\ q.current_token_index = p.current_token_index
    THEN [p |-> Hang(p), n |-> n]
    ELSE VbLoop(q, n + 1, until)

VbLoop(p, n, until) ==
    IF p.err # "" \/ get_current_token(p) = NoToken \/ get_current_token(p).token_type = until
    THEN [p |-> p, n |-> n]
    ELSE VbStep(p, Vb(p), n, until)

RECURSIVE E(_), D(_), Db(_), A(_), ALoop(_), At(_), AtLoop(_), Af(_), AfPower(_), Ap(_), R(_), RLoop(_), Rn(_)
(* E -> let D in E: after D, the 'in' *)
EIn(p) ==
    IF p.err # "" THEN p
    ELSE IF get_current_token(p).token_type = "in" THEN consume_token(p)
    ELSE SyntaxError(p)

(* E -> fn Vb+ . E and Db -> IDENTIFIER Vb+ = E: after the loop over Vb,   *)
(* the '.' or the '=', the body, and the node over all of them             *)
AfterVbs(r, until, value) ==
    IF r.p.err # "" THEN r.p
    ELSE IF get_current_token(r.p).token_type = until
    THEN build_tree_after(E(consume_token(r.p)), KW(value), r.n + 1)
    ELSE SyntaxError(r.p)

(* Ew -> T -> Ta -> Tc -> B -> Bt -> Bs -> Bp -> A: with none of where,    *)
(* ',', aug, ->, or, &, not and the comparison operators among the tokens, *)
(* each level calls the next and finds no operator of its own              *)
E(p) ==
    LET token == get_current_token(p)
    IN  IF p.err # "" \/ token = NoToken THEN p
        ELSE IF token.token_type = "let"
        THEN build_tree_after(E(EIn(D(consume_token(p)))), KW("let"), 2)
        ELSE IF token.token_type = "fn"
        THEN AfterVbs(VbLoop(Vb(consume_token(p)), 1, "."), ".", "lambda")
        ELSE A(p)

(* D -> Da -> Dr -> Db: with none of within, and, rec among the tokens *)
D(p) == Db(p)

(* Db -> Vl = E: after Vl, the '=' *)
DbEquals(p) ==
    IF p.err # "" THEN p
    ELSE IF get_current_token(p).token_type = "=" THEN consume_token(p)
    ELSE SyntaxError(p)

(* Db -> ( D ): after D, the closing parenthesis *)
DbClose(p) ==
    IF p.err # "" THEN p
    ELSE IF get_current_token(p).token_type = ")" THEN consume_token(p)
    ELSE SyntaxError(p)

(* Db: on a token that is neither IDENTIFIER nor '(' it returns and has    *)
(* done nothing. The token after an IDENTIFIER is read without a check of  *)
(* the index.                                                              *)
Db(p) ==
    LET token == get_current_token(p)
    IN  IF p.err # "" \/ token = NoToken THEN p
        ELSE IF token.token_type = "IDENTIFIER"
        THEN IF p.current_token_index + 1 > Len(p.tokens) THEN [p EXCEPT !.err = "IndexError"]
             ELSE IF p.tokens[p.current_token_index + 1].token_type \in {"IDENTIFIER", "("}
             THEN AfterVbs(VbLoop(Vb(PushNode(consume_token(p), ID(StrOf(token.lexeme)), 0)),
                                  2, "="),
                           "=", "function_form")
             ELSE build_tree_after(E(DbEquals(Vl(p))), KW("="), 2)
        ELSE IF token.token_type = "(" THEN DbClose(D(consume_token(p)))
        ELSE p

(* "while token and token.token_type in [PLUS, MINUS]" *)
ALoop(p) ==
    LET token == get_current_token(p)
    IN  IF p.err # "" \/ token.token_type \notin {"+", "-"} THEN p
        ELSE ALoop(build_tree_after(At(consume_token(p)), KW(token.token_type), 2))

(* the first term of A: a leading '-' wraps it in neg, a leading '+' is dropped *)
ANeg(p, token) ==
    IF token.token_type = "-" THEN build_tree_after(p, KW("neg"), 1) ELSE p

A(p) ==
    LET token == get_current_token(p)
    IN  IF token = NoToken THEN [p EXCEPT !.err = "AttributeError"]
        ELSE ALoop(ANeg(At(IF token.token_type \in {"+", "-"} THEN consume_token(p) ELSE p),
                        token))

(* "while token and token.token_type in [MULTIPLY, DIVIDE]" *)
AtLoop(p) ==
    LET token == get_current_token(p)
    IN  IF p.err # "" \/ token.token_type \notin {"*", "/"} THEN p
        ELSE AtLoop(build_tree_after(Af(consume_token(p)), KW(token.token_type), 2))

At(p) == AtLoop(Af(p))

(* Af after its Ap, with the right operand of '**' parsed by Ap: no right  *)
(* recursion                                                               *)
AfPowerNoRecursion(p) ==
    LET token == get_current_token(p)
    IN  IF p.err # "" THEN p
        ELSE IF token = NoToken THEN [p EXCEPT !.err = "AttributeError"]
        ELSE IF token.token_type = "**"
        THEN build_tree_after(Ap(consume_token(p)), KW("**"), 2)
        ELSE p

(* Af after its Ap: "if token.token_type == POWER: consume; Af(); build" *)
AfPower(p) ==
    LET token == get_current_token(p)
    IN  IF p.err # "" THEN p
        ELSE IF token = NoToken THEN [p EXCEPT !.err = "AttributeError"]
        ELSE IF token.token_type = "**"
        THEN build_tree_after(Af(consume_token(p)), KW("**"), 2)
        ELSE p

Af(p) == AfPower(Ap(p))

(* no '@' among the tokens: Ap is R *)
Ap(p) == R(p)

(* "while token and token.token_type in [LEFT_PAREN, IDENTIFIER, INTEGER, ...]" *)
RLoop(p) ==
    LET token == get_current_token(p)
    IN  IF p.err # "" \/ token.token_type \notin {"(", "IDENTIFIER", "INTEGER"} THEN p
        ELSE RLoop(build_tree_after(Rn(p), KW("gamma"), 2))

R(p) == RLoop(Rn(p))

(* Rn -> ( E ): after E, the closing parenthesis *)
RnClose(p) ==
    IF p.err # "" THEN p
    ELSE IF get_current_token(p).token_type = ")" THEN consume_token(p)
    ELSE SyntaxError(p)

Rn(p) ==
    LET token == get_current_token(p)
    IN  IF token = NoToken THEN p
        ELSE IF token.token_type = "(" THEN RnClose(E(consume_token(p)))
        ELSE IF token.token_type = "IDENTIFIER"
        THEN PushNode(consume_token(p), ID(StrOf(token.lexeme)), 0)
        ELSE IF token.token_type = "INTEGER" THEN PushNode(consume_token(p), INT(token.lexeme), 0)
        ELSE SyntaxError(p)

(***************************************************************************)
(* Standardizer                                                            *)
(***************************************************************************)
RECURSIVE ChildrenFrom(_, _)
ChildrenFrom(h, c) == IF c = 0 THEN <<>> ELSE <<c>> \o ChildrenFrom(h, h[c].right)

get_all_children(h, n) == ChildrenFrom(h, h[n].left)

Same(h, n) == [h |-> h, id |-> n]

standardize_let(h, n) ==
    IF \/ h[n].left = 0
       \/ h[h[n].left].right = 0
       \/ h[h[n].left].left = 0
       \/ h[h[h[n].left].left].right = 0
    THEN Same(h, n)
    ELSE IF ~IsKw(h[h[n].left].value, "=") THEN Same(h, n)
    ELSE LET x_node == h[h[n].left].left
             e_node == h[x_node].right
             p_node == h[h[n].left].right
             lam == New(h, KW("lambda"), x_node, e_node)
             gam == New(lam.h, KW("gamma"), lam.id, h[n].right)
         IN  [h |-> [gam.h EXCEPT ![x_node].right = p_node], id |-> gam.id]

(* standardize_where without "p_node.right = None": P keeps the '=' node   *)
(* as its next sibling                                                     *)
standardize_where_linked(h, n) ==
    IF \/ h[n].left = 0
       \/ h[h[n].left].right = 0
       \/ h[h[h[n].left].right].left = 0
       \/ h[h[h[h[n].left].right].left].right = 0
    THEN Same(h, n)
    ELSE IF ~IsKw(h[h[h[n].left].right].value, "=") THEN Same(h, n)
    ELSE LET x_node == h[h[h[n].left].right].left
             e_node == h[x_node].right
             p_node == h[n].left
             lam == New(h, KW("lambda"), x_node, e_node)
             gam == New(lam.h, KW("gamma"), lam.id, h[n].right)
         IN  [h |-> [gam.h EXCEPT ![x_node].right = p_node], id |-> gam.id]

standardize_where(h, n) ==
    IF \/ h[n].left = 0
       \/ h[h[n].left].right = 0
       \/ h[h[h[n].left].right].left = 0
       \/ h[h[h[h[n].left].right].left].right = 0
    THEN Same(h, n)
    ELSE IF ~IsKw(h[h[h[n].left].right].value, "=") THEN Same(h, n)
    ELSE LET x_node == h[h[h[n].left].right].left
             e_node == h[x_node].right
             p_node == h[n].left
             lam == New(h, KW("lambda"), x_node, e_node)
             gam == New(lam.h, KW("gamma"), lam.id, h[n].right)
         IN  [h |-> [gam.h EXCEPT ![x_node].right = p_node, ![p_node].right = 0],
              id |-> gam.id]

(* the loop "for v_node in reversed(v_nodes)": wraps lam in one lambda per *)
(* remaining bound variable, last to first                                 *)
RECURSIVE CurryLoop(_, _, _, _)
CurryLoop(h, vs, i, lam) ==
    IF i = 0 THEN [h |-> h, id |-> lam]
    ELSE LET h1 == [h EXCEPT ![vs[i]].right = lam]
             nl == New(h1, KW("lambda"), vs[i], 0)
         IN  CurryLoop(nl.h, vs, i - 1, nl.id)

(* the chain built over the bound variables taken first to last: the last *)
(* variable ends up outermost                                              *)
CurryReversed(h, v_nodes, e_node) ==
    LET rv == [i \in 1..Len(v_nodes) |-> v_nodes[Len(v_nodes) + 1 - i]]
        last == rv[Len(rv)]
        h1 == [h EXCEPT ![last].right = e_node]
        lam == New(h1, KW("lambda"), last, 0)
    IN  CurryLoop(lam.h, rv, Len(rv) - 1, lam.id)

(* last_v_node = v_nodes.pop(); last_v_node.right = e_node; ... *)
Curry(h, v_nodes, e_node) ==
    LET last == v_nodes[Len(v_nodes)]
        h1 == [h EXCEPT ![last].right = e_node]
        lam == New(h1, KW("lambda"), last, 0)
    IN  CurryLoop(lam.h, v_nodes, Len(v_nodes) - 1, lam.id)

standardize_function_form(h, n) ==
    IF \/ h[n].left = 0
       \/ h[h[n].left].right = 0
       \/ h[h[h[n].left].right].right = 0
    THEN Same(h, n)
    ELSE LET children == get_all_children(h, n)
             p_node == children[1]
             e_node == children[Len(children)]
             v_nodes == SubSeq(children, 2, Len(children) - 1)
             c == Curry(h, v_nodes, e_node)
             h2 == [c.h EXCEPT ![p_node].right = c.id]
         IN  New(h2, KW("="), p_node, h[n].right)

standardize_multi_param_function(h, n) ==
    IF \/ h[n].left = 0
       \/ h[h[n].left].right = 0
       \/ h[h[h[n].left].right].right = 0
    THEN Same(h, n)
    ELSE LET children == get_all_children(h, n)
             e_node == children[Len(children)]
             v_nodes == SubSeq(children, 1, Len(children) - 1)
             c == Curry(h, v_nodes, e_node)
         IN  [h |-> [c.h EXCEPT ![c.id].right = h[n].right], id |-> c.id]

(* standardize_within with the two expressions exchanged: lambda(x1, E1)  *)
(* applied to E2                                                           *)
standardize_within_swapped(h, n) ==
    IF \/ h[n].left = 0
       \/ h[h[n].left].right = 0
       \/ h[h[n].left].left = 0
       \/ h[h[h[n].left].left].right = 0
       \/ h[h[h[n].left].right].left = 0
       \/ h[h[h[h[n].left].right].left].right = 0
    THEN Same(h, n)
    ELSE IF \/ ~IsKw(h[h[n].left].value, "=")
            \/ ~IsKw(h[h[h[n].left].right].value, "=")
    THEN Same(h, n)
    ELSE LET x1_node == h[h[n].left].left
             e1_node == h[x1_node].right
             x2_node == h[h[h[n].left].right].left
             e2_node == h[x2_node].right
             lam == New(h, KW("lambda"), x1_node, e2_node)
             gam == New(lam.h, KW("gamma"), lam.id, 0)
             h2 == [gam.h EXCEPT ![x2_node].right = gam.id]
         IN  New(h2, KW("="), x2_node, h[n].right)

standardize_within(h, n) ==
    IF \/ h[n].left = 0
       \/ h[h[n].left].right = 0
       \/ h[h[n].left].left = 0
       \/ h[h[h[n].left].left].right = 0
       \/ h[h[h[n].left].right].left = 0
       \/ h[h[h[h[n].left].right].left].right = 0
    THEN Same(h, n)
    ELSE IF \/ ~IsKw(h[h[n].left].value, "=")
            \/ ~IsKw(h[h[h[n].left].right].value, "=")
    THEN Same(h, n)
    ELSE LET x1_node == h[h[n].left].left
             e1_node == h[x1_node].right
             x2_node == h[h[h[n].left].right].left
             e2_node == h[x2_node].right
             h1 == [h EXCEPT ![x1_node].right = e2_node]
             lam == New(h1, KW("lambda"), x1_node, e1_node)
             gam == New(lam.h, KW("gamma"), lam.id, 0)
             h2 == [gam.h EXCEPT ![x2_node].right = gam.id]
         IN  New(h2, KW("="), x2_node, h[n].right)

(* standardize_at leaving the '@' node as it is *)
standardize_at_skipped(h, n) == Same(h, n)

standardize_at(h, n) ==
    IF \/ h[n].left = 0
       \/ h[h[n].left].right = 0
       \/ h[h[h[n].left].right].right = 0
    THEN Same(h, n)
    ELSE LET e1_node == h[n].left
             n_node == h[e1_node].right
             e2_node == h[n_node].right
             h1 == [h EXCEPT ![n_node].right = e1_node]
             g1 == New(h1, KW("gamma"), n_node, e2_node)
             g2 == New(g1.h, KW("gamma"), g1.id, h[n].right)
         IN  [h |-> [g2.h EXCEPT ![e1_node].right = 0], id |-> g2.id]

(* the loop chaining the names only: every expression keeps its own      *)
(* next-sibling link                                                       *)
RECURSIVE LinkDefsNamesOnly(_, _, _, _)
LinkDefsNamesOnly(h, xs, es, i) ==
    IF i >= Len(xs) THEN h
    ELSE LinkDefsNamesOnly([h EXCEPT ![xs[i]].right = xs[i + 1]], xs, es, i + 1)

(* "for i in range(len(x_nodes) - 1)": chains the names and the expressions *)
RECURSIVE LinkDefs(_, _, _, _)
LinkDefs(h, xs, es, i) ==
    IF i >= Len(xs) THEN h
    ELSE LinkDefs([h EXCEPT ![xs[i]].right = xs[i + 1],
                            ![es[i]].right = es[i + 1]], xs, es, i + 1)

standardize_simultaneous_defs(h, n) ==
    IF \/ h[n].left = 0
       \/ h[h[n].left].right = 0
       \/ h[h[n].left].left = 0
       \/ h[h[h[n].left].left].right = 0
       \/ h[h[h[n].left].right].left = 0
       \/ h[h[h[h[n].left].right].left].right = 0
    THEN Same(h, n)
    ELSE LET children == get_all_children(h, n)
         IN  IF \E i \in 1..Len(children) : ~IsKw(h[children[i]].value, "=")
             THEN Same(h, n)
             ELSE LET x_nodes == [i \in 1..Len(children) |-> h[children[i]].left]
                      e_nodes == [i \in 1..Len(children) |-> h[h[children[i]].left].right]
                      h1 == LinkDefs(h, x_nodes, e_nodes, 1)
                      h2 == [h1 EXCEPT ![x_nodes[Len(x_nodes)]].right = 0]
                      tau == New(h2, KW("tau"), e_nodes[1], 0)
                      comma == New(tau.h, KW(","), x_nodes[1], tau.id)
                  IN  New(comma.h, KW("="), comma.id, h[n].right)

standardize_rec(h, n) ==
    IF \/ h[n].left = 0
       \/ h[h[n].left].left = 0
       \/ h[h[h[n].left].left].right = 0
    THEN Same(h, n)
    ELSE IF ~IsKw(h[h[n].left].value, "=") THEN Same(h, n)
    ELSE LET x_node == h[h[n].left].left
             e_node == h[x_node].right
             h1 == [h EXCEPT ![x_node].right = e_node]
             lam == New(h1, KW("lambda"), x_node, 0)
             y == New(lam.h, KW("Y"), 0, lam.id)
             gam == New(y.h, KW("gamma"), y.id, 0)
             x_copy == New(gam.h, h[x_node].value, 0, gam.id)
         IN  New(x_copy.h, KW("="), x_copy.id, h[n].right)

standardize_node(h, n) ==
    IF IsKw(h[n].value, "let") THEN standardize_let(h, n)
    ELSE IF IsKw(h[n].value, "where") THEN standardize_where(h, n)
    ELSE IF IsKw(h[n].value, "function_form") THEN standardize_function_form(h, n)
    ELSE IF IsKw(h[n].value, "lambda") THEN standardize_multi_param_function(h, n)
    ELSE IF IsKw(h[n].value, "within") THEN standardize_within(h, n)
    ELSE IF IsKw(h[n].value, "@") THEN standardize_at(h, n)
    ELSE IF IsKw(h[n].value, "and") THEN standardize_simultaneous_defs(h, n)
    ELSE IF IsKw(h[n].value, "rec") THEN standardize_rec(h, n)
    ELSE Same(h, n)

RECURSIVE standardize_bottom_up(_, _)
standardize_bottom_up(h, n) ==
    IF n = 0 THEN Same(h, 0)
    ELSE LET a == IF h[n].left # 0
                  THEN LET r == standardize_bottom_up(h, h[n].left)
                       IN  [r.h EXCEPT ![n].left = r.id]
                  ELSE h
             b == IF a[n].right # 0
                  THEN LET r == standardize_bottom_up(a, a[n].right)
                       IN  [r.h EXCEPT ![n].right = r.id]
                  ELSE a
         IN  After(a, After(b, standardize_node(b, n)))

(* Standardizer.standardize *)
standardize(h, n) == standardize_bottom_up(h, n)

(***************************************************************************)
(* Runtime objects of the CSE machine.  A value is a record tagged with    *)
(* its Python class; closures and tuples are references into the heaps     *)
(* "closures" and "tuples", environments are named by their env_id.        *)
(***************************************************************************)
IntV(i) == [k |-> "int", i |-> i]

BoolV(b) == [k |-> "bool", b |-> b]

FloatV(n, d) == [k |-> "float", num |-> n, den |-> d]

StrV(s) == [k |-> "str", s |-> s]

NoneV == [k |-> "None"]

TupleV(r) == [k |-> "Tuple", ref |-> r]

ClosureV(r) == [k |-> "Closure", ref |-> r]

BuiltinV(n) == [k |-> "BuiltinFunction", name |-> n]

EnvV(e) == [k |-> "Environment", id |-> e]

(* the environment field of a closure that has not been stacked yet *)
NoEnv == -1

Closure(cs_id, params, type, env) ==
    [cs_id |-> cs_id, params |-> params, type |-> type, env |-> env]

(* control items that are Python strings carry the field t *)
IsCtlStr(x) == "t" \in DOMAIN x

IsObj(x, k) == "k" \in DOMAIN x /\ x.k = k

TauItem(n) == [t |-> "TAU", n |-> n]

(* the reference written after the counter has moved on: it names the id *)
(* that follows the one the arm is registered under                       *)
DeltaItemNextId(id, arm) == [t |-> "DELTA", id |-> id + 1, arm |-> arm]

DeltaItem(id, arm) == [t |-> "DELTA", id |-> id, arm |-> arm]

(* dict[key] = value *)
Put(d, key, value) == (key :> value) @@ d

(***************************************************************************)
(* Control-structure flattener.  g is the state the walk threads through:  *)
(* the node heap (the walk cuts the arms of '->' off their node), the      *)
(* closure heap, the table of control structures and last_cs_id.           *)
(***************************************************************************)
RECURSIVE ParamValues(_, _)
ParamValues(h, c) == IF c = 0 THEN <<>> ELSE <<h[c].value>> \o ParamValues(h, h[c].right)

RECURSIVE NumChildren(_, _)
NumChildren(h, c) == IF c = 0 THEN 0 ELSE 1 + NumChildren(h, h[c].right)

(* the item a node that is neither 'lambda' nor '->' puts into the delta *)
EmitItem(h, node) ==
    IF IsKw(h[node].value, "tau") THEN TauItem(NumChildren(h, h[node].left))
    ELSE h[node].value

(* reading an attribute of None: the walk ends with AttributeError *)
Fail(g, cs) == [g |-> [g EXCEPT !.err = "AttributeError"], cs |-> cs]

RECURSIVE generate_control_structure(_, _, _)
generate_control_structure(g, node, cs) ==
    IF g.err # "" \/ node = 0 THEN [g |-> g, cs |-> cs]
    ELSE IF IsKw(g.nodes[node].value, "lambda") THEN
        LET left == g.nodes[node].left
            params == IF IsKw(g.nodes[left].value, ",")
                      THEN ParamValues(g.nodes, g.nodes[left].left)
                      ELSE <<g.nodes[left].value>>
            lambda_cs_id == g.last_cs_id
            g1 == [g EXCEPT !.closures = Append(@, Closure(lambda_cs_id, params, "lambda", NoEnv)),
                            !.last_cs_id = @ + 1]
            cs1 == Append(cs, ClosureV(Len(g.closures) + 1))
            body == generate_control_structure(g1, g1.nodes[left].right, <<>>)
            g2 == [body.g EXCEPT !.control_structures = Put(@, lambda_cs_id, body.cs)]
        IN  IF left = 0 THEN Fail(g, cs)
            ELSE After(body, IF body.g.err # "" THEN [g |-> body.g, cs |-> cs1]
                             ELSE generate_control_structure(g2, g2.nodes[node].right, cs1))
    ELSE IF IsKw(g.nodes[node].value, "->") THEN
        LET condition == g.nodes[node].left
            true_branch == g.nodes[condition].right
            false_branch == g.nodes[true_branch].right
            g1 == [g EXCEPT !.nodes[true_branch].right = 0, !.nodes[condition].right = 0]
            c == generate_control_structure(g1, condition, <<>>)
            tr == generate_control_structure(c.g, true_branch, <<>>)
            fl == generate_control_structure(tr.g, false_branch, <<>>)
            tid == fl.g.last_cs_id
            g2 == [fl.g EXCEPT !.control_structures = Put(Put(@, tid, tr.cs), tid + 1, fl.cs),
                               !.last_cs_id = tid + 2]
            cs1 == cs \o <<DeltaItem(tid, "t"), DeltaItem(tid + 1, "f"), KW("beta")>> \o c.cs
        IN  IF condition = 0 THEN Fail(g, cs)
            ELSE IF true_branch = 0 THEN Fail(g, cs)
            ELSE After(c, After(tr, After(fl,
                    IF fl.g.err # "" THEN [g |-> fl.g, cs |-> cs]
                    ELSE generate_control_structure(g2, g2.nodes[node].right, cs1))))
    ELSE
        LET l == generate_control_structure(g, g.nodes[node].left,
                                            Append(cs, EmitItem(g.nodes, node)))
        IN  After(l, generate_control_structure(l.g, l.g.nodes[node].right, l.cs))

(* "self.last_cs_id = 1": the first id the counter issues *)
FirstCsId == 1

(* CSEMachine.setup_control_structures: delta 0 is registered last *)
setup_control_structures(h, st) ==
    LET g0 == [nodes |-> h, closures |-> <<>>, control_structures |-> <<>>,
               last_cs_id |-> FirstCsId, err |-> ""]
        r == generate_control_structure(g0, st, <<>>)
    IN  IF r.g.err # "" THEN r.g
        ELSE [r.g EXCEPT !.control_structures = Put(@, 0, r.cs)]

(* CSEMachine.setup_builtin_functions: the names bound in environment 0 *)
BuiltinNames == {"Print", "Isinteger", "Istruthvalue", "Isstring", "Istuple",
                 "Isfunction", "Isdummy", "Stem", "Stern", "Conc", "ItoS",
                 "Order", "Null"}

(* -1 is variable arity *)
Arity(name) == IF name = "Print" THEN -1 ELSE IF name = "Conc" THEN 2 ELSE 1

(* Environment(id, parent): no bindings yet *)
Environment(parent) == [parent |-> parent, bindings |-> <<>>]

NoParent == -1

setup_builtin_functions == [parent |-> NoParent, bindings |-> [n \in BuiltinNames |-> BuiltinV(n)]]

(***************************************************************************)
(* Python semantics of the values the rules compute with                   *)
(***************************************************************************)
Top(s) == s[Len(s)]

Pop(s) == SubSeq(s, 1, Len(s) - 1)

NIL == <<"n", "i", "l">>

DUMMY == <<"d", "u", "m", "m", "y">>

Y_STAR == <<"Y", "_", "s", "t", "a", "r">>

TRUE_STR == <<"t", "r", "u", "e">>

FALSE_STR == <<"f", "a", "l", "s", "e">>

Digits == <<"0", "1", "2", "3", "4", "5", "6", "7", "8", "9">>

DigitOf(c) == (CHOOSE i \in 1..10 : Digits[i] = c) - 1

(* int(s) for a string of decimal digits *)
RECURSIVE ParseInt(_)
ParseInt(ds) ==
    IF ds = <<>> THEN 0
    ELSE 10 * ParseInt(SubSeq(ds, 1, Len(ds) - 1)) + DigitOf(ds[Len(ds)])

RECURSIVE NatToStr(_)
NatToStr(n) == IF n < 10 THEN <<Digits[n + 1]>>
               ELSE NatToStr(n \div 10) \o <<Digits[(n % 10) + 1]>>

(* str(value) for an int; bool is a subclass of int and prints as a word *)
PyStr(v) ==
    IF v.k = "bool" THEN (IF v.b THEN <<"T", "r", "u", "e">> ELSE <<"F", "a", "l", "s", "e">>)
    ELSE IF v.i < 0 THEN <<"-">> \o NatToStr(-v.i) ELSE NatToStr(v.i)

(* isinstance(v, int): bool is a subclass of int *)
IsInstInt(v) == IsObj(v, "int") \/ IsObj(v, "bool")

(* isinstance(v, (int, float)) *)
IsInstNum(v) == IsInstInt(v) \/ IsObj(v, "float")

IsInstStr(v) == IsObj(v, "str")

IsStrEq(v, s) == IsObj(v, "str") /\ v.s = s

(* the integer an int or a bool stands for in arithmetic *)
IntOf(v) == IF v.k = "bool" THEN (IF v.b THEN 1 ELSE 0) ELSE v.i

Abs(x) == IF x < 0 THEN -x ELSE x

RECURSIVE GCD(_, _)
GCD(a, b) == IF b = 0 THEN a ELSE GCD(b, a % b)

(* a float is kept as the reduced fraction num/den, den > 0 *)
Frac(n, d) ==
    LET sn == IF d < 0 THEN -n ELSE n
        sd == Abs(d)
        g == GCD(Abs(sn), sd)
    IN  FloatV(sn \div g, sd \div g)

NumOf(v) == IF v.k = "float" THEN v.num ELSE IntOf(v)

DenOf(v) == IF v.k = "float" THEN v.den ELSE 1

RECURSIVE Power(_, _)
Power(b, e) == IF e = 0 THEN 1 ELSE b * Power(b, e - 1)

(* left op right for + - * / **; err is the Python exception, "" if none *)
Arith(op, l, r) ==
    LET bothInt == IsInstInt(l) /\ IsInstInt(r)
        ln == NumOf(l)
        ld == DenOf(l)
        rn == NumOf(r)
        rd == DenOf(r)
        ok(v) == [err |-> "", v |-> v]
        fail(e) == [err |-> e, v |-> NoneV]
    IN  IF op = "+" THEN ok(IF bothInt THEN IntV(ln + rn) ELSE Frac(ln * rd + rn * ld, ld * rd))
        ELSE IF op = "-" THEN ok(IF bothInt THEN IntV(ln - rn) ELSE Frac(ln * rd - rn * ld, ld * rd))
        ELSE IF op = "*" THEN ok(IF bothInt THEN IntV(ln * rn) ELSE Frac(ln * rn, ld * rd))
        ELSE IF op = "/" THEN (IF rn = 0 THEN fail("ZeroDivisionError")
                               ELSE ok(Frac(ln * rd, ld * rn)))
        ELSE IF rd # 1 THEN fail("FractionalExponent")
        ELSE IF rn >= 0 THEN ok(IF bothInt THEN IntV(Power(ln, rn))
                                ELSE Frac(Power(ln, rn), Power(ld, rn)))
        ELSE IF ln = 0 THEN fail("ZeroDivisionError")
        ELSE ok(Frac(Power(ld, -rn), Power(ln, -rn)))

(* left op right for the ordering operators *)
Compare(op, l, r) ==
    LET a == NumOf(l) * DenOf(r)
        b == NumOf(r) * DenOf(l)
    IN  IF op \in {"gr", ">"} THEN a > b
        ELSE IF op \in {"ge", ">="} THEN a >= b
        ELSE IF op \in {"ls", "<"} THEN a < b
        ELSE a <= b

(* left == right: numbers by value (True == 1), strings by content, None   *)
(* with None, every other object by identity (no class defines __eq__)     *)
PyEq(l, r) ==
    IF IsInstNum(l) /\ IsInstNum(r) THEN NumOf(l) * DenOf(r) = NumOf(r) * DenOf(l)
    ELSE IF l.k # r.k THEN FALSE
    ELSE IF l.k = "str" THEN l.s = r.s
    ELSE IF l.k = "None" THEN TRUE
    ELSE IF l.k \in {"Tuple", "Closure"} THEN l.ref = r.ref
    ELSE IF l.k = "BuiltinFunction" THEN l.name = r.name
    ELSE l.id = r.id

(* isinstance(v, bool) or v == 'true' or v == 'false' *)
IsBoolish(v) == IsObj(v, "bool") \/ IsStrEq(v, TRUE_STR) \/ IsStrEq(v, FALSE_STR)

(* truth value of a bool or a string *)
Truthy(v) == IF v.k = "bool" THEN v.b ELSE v.s # <<>>

(***************************************************************************)
(* Built-in functions.  Each returns [err, v]: the exception raised ("" if *)
(* none) and the value returned.  tuples is the tuple heap.                *)
(***************************************************************************)
Ret(v) == [err |-> "", v |-> v]

Exc(e) == [err |-> e, v |-> NoneV]

(* the print statements of the function are commented out: it only returns *)
builtin_print(value) == Ret(value)

builtin_isinteger(value) == Ret(BoolV(IsInstInt(value)))

builtin_istruthvalue(value) == Ret(BoolV(IsObj(value, "bool")))

builtin_isstring(value) == Ret(BoolV(IsInstStr(value)))

builtin_istuple(value) == Ret(BoolV(IsObj(value, "Tuple")))

builtin_isfunction(value) == Ret(BoolV(IsObj(value, "Closure") \/ IsObj(value, "BuiltinFunction")))

builtin_isdummy(value) == Ret(BoolV(IsStrEq(value, DUMMY)))

builtin_stem(value) ==
    IF IsInstStr(value) /\ Len(value.s) > 0 THEN Ret(StrV(<<value.s[1]>>)) ELSE Ret(NoneV)

builtin_stern(value) ==
    IF IsInstStr(value) /\ Len(value.s) > 0
    THEN (IF Len(value.s) = 1 THEN Ret(StrV(<<>>)) ELSE Ret(StrV(Tail(value.s))))
    ELSE Ret(StrV(<<>>))

builtin_conc(s, t) ==
    IF IsInstStr(s) /\ IsInstStr(t) THEN Ret(StrV(s.s \o t.s)) ELSE Exc("TypeError")

builtin_itos(value) == IF IsInstInt(value) THEN Ret(StrV(PyStr(value))) ELSE Exc("TypeError")

builtin_order(tuples, value) ==
    IF IsObj(value, "Tuple") THEN Ret(IntV(Len(tuples[value.ref]))) ELSE Ret(IntV(0))

builtin_null(tuples, value) ==
    IF IsObj(value, "Tuple") THEN Ret(BoolV(Len(tuples[value.ref]) = 0))
    ELSE IF IsObj(value, "None") THEN Ret(BoolV(TRUE))
    ELSE Ret(BoolV(FALSE))

(* the call builtin_function.func with the popped arguments: a call with   *)
(* the wrong number of arguments is a TypeError                            *)
CallBuiltin(name, args, tuples) ==
    IF name = "Conc" THEN (IF Len(args) = 2 THEN builtin_conc(args[1], args[2]) ELSE Exc("TypeError"))
    ELSE IF Len(args) # 1 THEN Exc("TypeError")
    ELSE IF name = "Print" THEN builtin_print(args[1])
    ELSE IF name = "Isinteger" THEN builtin_isinteger(args[1])
    ELSE IF name = "Istruthvalue" THEN builtin_istruthvalue(args[1])
    ELSE IF name = "Isstring" THEN builtin_isstring(args[1])
    ELSE IF name = "Istuple" THEN builtin_istuple(args[1])
    ELSE IF name = "Isfunction" THEN builtin_isfunction(args[1])
    ELSE IF name = "Isdummy" THEN builtin_isdummy(args[1])
    ELSE IF name = "Stem" THEN builtin_stem(args[1])
    ELSE IF name = "Stern" THEN builtin_stern(args[1])
    ELSE IF name = "ItoS" THEN builtin_itos(args[1])
    ELSE IF name = "Order" THEN builtin_order(tuples, args[1])
    ELSE builtin_null(tuples, args[1])

(***************************************************************************)
(* Environment                                                             *)
(***************************************************************************)
(* Environment.bind: [err, env] *)
bind(env, name, value) ==
    IF name \in DOMAIN env.bindings THEN [err |-> "ValueError", env |-> env]
    ELSE [err |-> "", env |-> [env EXCEPT !.bindings = Put(@, name, value)]]

(* a lookup that stops at the environment it starts in *)
lookupHere(envs, e, name) ==
    IF name \in DOMAIN envs[e].bindings THEN [found |-> TRUE, v |-> envs[e].bindings[name]]
    ELSE [found |-> FALSE, v |-> NoneV]

(* Environment.lookup along the parent chain: [found, v] *)
RECURSIVE lookup(_, _, _)
lookup(envs, e, name) ==
    IF name \in DOMAIN envs[e].bindings THEN [found |-> TRUE, v |-> envs[e].bindings[name]]
    ELSE IF envs[e].parent # NoParent THEN lookup(envs, envs[e].parent, name)
    ELSE [found |-> FALSE, v |-> NoneV]

(* param[4:-1]: the name inside '<ID:name>'; of the word '()' nothing is left *)
ParamName(p) == IF p.t = "ID" THEN p.name ELSE ""

(***************************************************************************)
(* CSEMachine.apply_rule.  m is the machine: env_stack, control_stack,     *)
(* value_stack, the object heaps closures, tuples and envs, last_env_id    *)
(* and error (the exception that left apply_rule, "" if none).  cstab is   *)
(* control_structures.  A rule that raises leaves m as it was at the raise.*)
(***************************************************************************)
Raise(m, e) == [m EXCEPT !.error = e]

PushV(m, v) == [m EXCEPT !.value_stack = Append(@, v)]

PopV(m) == [m EXCEPT !.value_stack = Pop(@)]

PopC(m) == [m EXCEPT !.control_stack = Pop(@)]

BinaryOps == {"gr", "ge", "ls", "le", "eq", "ne", ">", ">=", "<", "<=",
              "+", "-", "*", "/", "**", "&", "or", "aug"}

IsWord(c, w) == IsCtlStr(c) /\ c.t = "KW" /\ c.w = w

(* the branch of the if/elif chain that the top of C and the top of V      *)
(* select; 0 is the final else                                             *)
RuleNo(m) ==
    LET c == Top(m.control_stack)
        hasV == m.value_stack # <<>>
        v == Top(m.value_stack)
        gamma == IsWord(c, "gamma")
    IN  IF IsCtlStr(c) /\ c.t \in {"ID", "INT", "STR"} THEN 1
        ELSE IF IsCtlStr(c) /\ c.t = "KW" /\ c.w \in {"true", "false", "nil", "Y_star", "dummy"} THEN 1
        ELSE IF IsObj(c, "Closure") THEN 2
        ELSE IF gamma /\ hasV /\ IsObj(v, "BuiltinFunction") THEN 3
        ELSE IF gamma /\ hasV /\ IsObj(v, "Closure") /\ m.closures[v.ref].type = "lambda" THEN 4
        ELSE IF IsObj(c, "Environment") THEN 5
        ELSE IF IsCtlStr(c) /\ c.t = "KW" /\ c.w \in BinaryOps THEN 6
        ELSE IF IsCtlStr(c) /\ c.t = "KW" /\ c.w \in {"not", "neg"} THEN 7
        ELSE IF IsWord(c, "beta") THEN 8
        ELSE IF IsCtlStr(c) /\ c.t = "TAU" THEN 9
        ELSE IF gamma /\ (~hasV \/ (IsObj(v, "Tuple") /\
                            (Len(m.value_stack) < 2 \/
                             IsInstInt(m.value_stack[Len(m.value_stack) - 1])))) THEN 10
        ELSE IF gamma /\ hasV /\ IsStrEq(v, Y_STAR) THEN 12
        ELSE IF gamma /\ hasV /\ IsObj(v, "Closure") /\ m.closures[v.ref].type = "eta" THEN 13
        ELSE 0

(* Rule 1 - Stack a name *)
Rule1f(m) ==
    LET c == Top(m.control_stack)
        done(v) == PopC(PushV(m, v))
    IN  IF c.t = "ID" THEN
            (IF m.env_stack = <<>> THEN Raise(m, "IndexError")
             ELSE LET r == lookup(m.envs, Top(m.env_stack), c.name)
                  IN  IF r.found THEN done(r.v) ELSE Raise(m, "NameError"))
        ELSE IF c.t = "INT" THEN done(IntV(ParseInt(c.digits)))
        ELSE IF c.t = "STR" THEN done(StrV(SubSeq(c.lexeme, 2, Len(c.lexeme) - 1)))
        ELSE IF c.w = "true" THEN done(BoolV(TRUE))
        ELSE IF c.w = "false" THEN done(BoolV(FALSE))
        ELSE IF c.w = "nil" THEN done(StrV(NIL))
        ELSE IF c.w = "Y_star" THEN done(StrV(Y_STAR))
        ELSE done(StrV(DUMMY))

(* Rule 2 - Stack lambda: the closure object found on C is the one stored  *)
(* in the delta; its env field is overwritten and the same object pushed   *)
Rule2f(m) ==
    LET c == Top(m.control_stack)
    IN  IF m.env_stack = <<>> THEN Raise(m, "IndexError")
        ELSE PopC(PushV([m EXCEPT !.closures[c.ref].env = Top(m.env_stack)], c))

(* isinstance(v, (int, str, bool, Tuple, Closure)) *)
IsPrintArg(v) == v.k \in {"int", "str", "bool", "Tuple", "Closure"}

(* "while self.value_stack and isinstance(...)": [args, rest] *)
RECURSIVE PopWhileArgs(_, _)
PopWhileArgs(vs, args) ==
    IF vs # <<>> /\ IsPrintArg(Top(vs)) THEN PopWhileArgs(Pop(vs), Append(args, Top(vs)))
    ELSE [args |-> args, rest |-> vs, err |-> ""]

(* "for _ in range(arity)": [args, rest, err] *)
RECURSIVE PopArgs(_, _, _)
PopArgs(vs, args, n) ==
    IF n = 0 THEN [args |-> args, rest |-> vs, err |-> ""]
    ELSE IF vs = <<>> THEN [args |-> args, rest |-> vs, err |-> "ValueError"]
    ELSE PopArgs(Pop(vs), Append(args, Top(vs)), n - 1)

(* Rule 3 - Apply (Ope)Rator *)
Rule3f(m) ==
    LET f == Top(m.value_stack)
        m1 == PopV(PopC(m))
        a == IF Arity(f.name) = -1 THEN PopWhileArgs(m1.value_stack, <<>>)
             ELSE PopArgs(m1.value_stack, <<>>, Arity(f.name))
        m2 == [m1 EXCEPT !.value_stack = a.rest]
        r == CallBuiltin(f.name, a.args, m.tuples)
    IN  IF a.err # "" THEN Raise(m2, a.err)
        ELSE IF r.err # "" THEN Raise(m2, r.err)
        ELSE PushV(m2, r.v)

(* binds params[i..] to the tuple's elements: [err, env] *)
RECURSIVE BindTuple(_, _, _, _)
BindTuple(env, params, values, i) ==
    IF i > Len(values) THEN [err |-> "", env |-> env]
    ELSE LET b == bind(env, ParamName(params[i]), values[i])
         IN  IF b.err # "" THEN b ELSE BindTuple(b.env, params, values, i + 1)

(* "for i in range(len(params)): if i < len(self.value_stack)": each       *)
(* parameter takes whatever is on top of V: [err, env, vs]                 *)
RECURSIVE BindFromStack(_, _, _, _)
BindFromStack(env, params, vs, i) ==
    IF i > Len(params) THEN [err |-> "", env |-> env, vs |-> vs]
    ELSE IF i - 1 < Len(vs) THEN
        LET b == bind(env, ParamName(params[i]), Top(vs))
        IN  IF b.err # "" THEN [err |-> b.err, env |-> env, vs |-> vs]
            ELSE BindFromStack(b.env, params, Pop(vs), i + 1)
    ELSE BindFromStack(env, params, vs, i + 1)

(* the tail of Rule 4: enter the new environment *)
EnterEnv(m, cstab, id, cs_id) ==
    [m EXCEPT !.env_stack = Append(@, id),
              !.control_stack = Append(Pop(@), EnvV(id)) \o cstab[cs_id],
              !.value_stack = Append(@, EnvV(id))]

(* Rule 4 (and 11) - Apply lambda *)
Rule4f(m, cstab) ==
    LET closure == m.closures[Top(m.value_stack).ref]
        id == m.last_env_id + 1
        new_env == Environment(closure.env)
        m1 == [PopV(m) EXCEPT !.last_env_id = id, !.envs = Put(@, id, new_env)]
        params == closure.params
        withEnv(mm, e) == [mm EXCEPT !.envs = Put(@, id, e)]
    IN  IF m1.value_stack = <<>> THEN Raise(m1, "IndexError")
        ELSE IF IsObj(Top(m1.value_stack), "Tuple") THEN
            LET t == Top(m1.value_stack)
                tuple_values == m1.tuples[t.ref]
                m2 == PopV(m1)
            IN  IF Len(params) = 1 THEN
                    EnterEnv(withEnv(m2, bind(new_env, ParamName(params[1]), t).env),
                             cstab, id, closure.cs_id)
                ELSE IF Len(tuple_values) # Len(params) THEN Raise(m2, "ValueError")
                ELSE LET b == BindTuple(new_env, params, tuple_values, 1)
                     IN  IF b.err # "" THEN Raise(withEnv(m2, b.env), b.err)
                         ELSE EnterEnv(withEnv(m2, b.env), cstab, id, closure.cs_id)
        ELSE LET b == BindFromStack(new_env, params, m1.value_stack, 1)
                 m2 == withEnv([m1 EXCEPT !.value_stack = b.vs], b.env)
             IN  IF b.err # "" THEN Raise(m2, b.err)
                 ELSE EnterEnv(m2, cstab, id, closure.cs_id)

(* Rule 5 - Exit environment *)
Rule5f(m) ==
    LET m1 == PopC(m)
        m2 == [m1 EXCEPT !.env_stack = Pop(@)]
        n == Len(m.value_stack)
    IN  IF m.env_stack = <<>> THEN Raise(m1, "IndexError")
        ELSE IF n < 2 THEN Raise(m2, "IndexError")
        ELSE IF IsObj(m.value_stack[n - 1], "Environment")
        THEN [m2 EXCEPT !.value_stack = SubSeq(@, 1, n - 2) \o <<m.value_stack[n]>>]
        ELSE Raise(m2, "ValueError")

(* Tuple(values): a new tuple object *)
NewTuple(m, values) ==
    PushV([m EXCEPT !.tuples = Append(@, values)], TupleV(Len(m.tuples) + 1))

(* the aug branch: left.values.append(right) extends the object left names *)
Aug(m, left, right) ==
    IF ~(IsObj(left, "Tuple") \/ IsStrEq(left, NIL)) \/ ~(IsInstInt(right) \/ IsInstStr(right))
    THEN Raise(m, "TypeError")
    ELSE IF IsStrEq(left, NIL) THEN NewTuple(m, <<right>>)
    ELSE PushV([m EXCEPT !.tuples[left.ref] = Append(@, right)], left)

(* Rule 6 - binary operations; m has the operator and both operands popped *)
BinaryResult(m, op, left, right) ==
    IF op \in {"+", "-", "*", "/", "**"} THEN
        (IF ~IsInstNum(left) \/ ~IsInstNum(right) THEN Raise(m, "TypeError")
         ELSE LET r == Arith(op, left, right)
              IN  IF r.err # "" THEN Raise(m, r.err) ELSE PushV(m, r.v))
    ELSE IF op \in {"gr", "ge", "ls", "le", ">", ">=", "<", "<="} THEN
        (IF ~IsInstNum(left) \/ ~IsInstNum(right) THEN Raise(m, "TypeError")
         ELSE PushV(m, BoolV(Compare(op, left, right))))
    ELSE IF op = "eq" THEN PushV(m, BoolV(PyEq(left, right)))
    ELSE IF op = "ne" THEN PushV(m, BoolV(~PyEq(left, right)))
    ELSE IF op \in {"&", "or"} THEN
        (IF ~IsBoolish(left) \/ ~IsBoolish(right) THEN Raise(m, "TypeError")
         ELSE IF op = "&" THEN PushV(m, IF Truthy(left) THEN right ELSE left)
         ELSE PushV(m, IF Truthy(left) THEN left ELSE right))
    ELSE Aug(m, left, right)

(* Rule 6 with the operands taken as right = pop(), left = pop() *)
Rule6fSwapped(m) ==
    LET op == Top(m.control_stack).w
        m1 == PopC(m)
        n == Len(m.value_stack)
    IN  IF n < 2 THEN Raise(m1, "ValueError")
        ELSE BinaryResult([m1 EXCEPT !.value_stack = SubSeq(@, 1, n - 2)], op,
                          m.value_stack[n - 1], m.value_stack[n])

Rule6f(m) ==
    LET op == Top(m.control_stack).w
        m1 == PopC(m)
        n == Len(m.value_stack)
    IN  IF n < 2 THEN Raise(m1, "ValueError")
        ELSE BinaryResult([m1 EXCEPT !.value_stack = SubSeq(@, 1, n - 2)], op,
                          m.value_stack[n], m.value_stack[n - 1])

(* Rule 7 - Unary operations *)
Rule7f(m) ==
    LET op == Top(m.control_stack).w
        m1 == PopC(m)
        value == Top(m.value_stack)
        m2 == PopV(m1)
    IN  IF m.value_stack = <<>> THEN Raise(m1, "ValueError")
        ELSE IF op = "not" THEN
            (IF ~IsBoolish(value) THEN Raise(m2, "TypeError")
             ELSE PushV(m2, BoolV(~Truthy(value))))
        ELSE IF ~IsInstNum(value) THEN Raise(m2, "TypeError")
        ELSE IF value.k = "float" THEN PushV(m2, FloatV(-value.num, value.den))
        ELSE PushV(m2, IntV(-IntOf(value)))

(* Rule 8 taking the arm of the opposite truth value *)
Rule8fOtherArm(m, cstab) ==
    LET m2 == PopV(PopC(m))
        n == Len(m2.control_stack)
        ref == IF PyEq(Top(m.value_stack), BoolV(TRUE)) THEN m2.control_stack[n]
               ELSE m2.control_stack[n - 1]
    IN  [m2 EXCEPT !.control_stack = SubSeq(@, 1, n - 2) \o cstab[ref.id]]

(* Rule 8 - Conditionals.  Under 'beta' lie 'delta_<f>_f' and below it     *)
(* 'delta_<t>_t'; int(ref[6:-2]) reads the id back out of the reference    *)
Rule8f(m, cstab) ==
    LET m1 == PopC(m)
        value == Top(m.value_stack)
        m2 == PopV(m1)
        n == Len(m2.control_stack)
        isTrue == PyEq(value, BoolV(TRUE)) \/ IsStrEq(value, TRUE_STR)
        isFalse == PyEq(value, BoolV(FALSE)) \/ IsStrEq(value, FALSE_STR)
        ref == IF isTrue THEN m2.control_stack[n - 1] ELSE m2.control_stack[n]
    IN  IF m.value_stack = <<>> THEN Raise(m1, "IndexError")
        ELSE IF IsObj(value, "None") \/ ~(isTrue \/ isFalse) THEN Raise(m2, "ValueError")
        ELSE IF n < 2 THEN Raise([m2 EXCEPT !.control_stack = <<>>], "IndexError")
        ELSE IF ~(IsCtlStr(ref) /\ ref.t = "DELTA") THEN
            Raise([m2 EXCEPT !.control_stack = SubSeq(@, 1, n - (IF isTrue THEN 2 ELSE 1))],
                  "ValueError")
        ELSE [m2 EXCEPT !.control_stack = SubSeq(@, 1, n - 2) \o cstab[ref.id]]

(* "[self.value_stack.pop() for _ in range(num_children)]" *)
RECURSIVE PopN(_, _)
PopN(vs, n) == IF n = 0 THEN <<>> ELSE <<Top(vs)>> \o PopN(Pop(vs), n - 1)

(* Rule 9 with the tuple taken as the slice value_stack[-n:], bottom first *)
Rule9fBottomFirst(m) ==
    LET num_children == Top(m.control_stack).n
        m1 == PopC(m)
        n == Len(m.value_stack)
    IN  IF n < num_children THEN Raise(m1, "ValueError")
        ELSE NewTuple([m1 EXCEPT !.value_stack = SubSeq(@, 1, n - num_children)],
                      SubSeq(m.value_stack, n - num_children + 1, n))

(* Rule 9 - Tuple formation *)
Rule9f(m) ==
    LET num_children == Top(m.control_stack).n
        m1 == PopC(m)
        n == Len(m.value_stack)
    IN  IF n < num_children THEN Raise(m1, "ValueError")
        ELSE NewTuple([m1 EXCEPT !.value_stack = SubSeq(@, 1, n - num_children)],
                      PopN(m.value_stack, num_children))

(* Rule 10 reading the index as counted from 0 *)
Rule10fFromZero(m) ==
    LET n == Len(m.value_stack)
        values == m.tuples[m.value_stack[n].ref]
        index == IntOf(m.value_stack[n - 1])
        m1 == [PopC(m) EXCEPT !.value_stack = SubSeq(@, 1, n - 2)]
    IN  IF n < 2 THEN Raise(m, "IndexError")
        ELSE IF index < 0 \/ index >= Len(values) THEN Raise(m1, "IndexError")
        ELSE PushV(m1, values[index + 1])

(* Rule 10 - Tuple access; reading V[-1] or V[-2] of a shorter stack in    *)
(* the rule's own condition is an IndexError                               *)
Rule10f(m) ==
    LET n == Len(m.value_stack)
        values == m.tuples[m.value_stack[n].ref]
        index == IntOf(m.value_stack[n - 1]) - 1
        m1 == [PopC(m) EXCEPT !.value_stack = SubSeq(@, 1, n - 2)]
    IN  IF n < 2 THEN Raise(m, "IndexError")
        ELSE IF index < 0 \/ index >= Len(values) THEN Raise(m1, "IndexError")
        ELSE PushV(m1, values[index + 1])

(* Closure(...): a new closure object *)
NewClosure(m, c) ==
    PushV([m EXCEPT !.closures = Append(@, c)], ClosureV(Len(m.closures) + 1))

(* Rule 12 with an eta closure that has lost the environment the lambda    *)
(* closure captured                                                        *)
Rule12fNoEnv(m) ==
    LET m1 == PopV(PopC(m))
        closure == m1.closures[Top(m1.value_stack).ref]
    IN  NewClosure(PopV(m1), Closure(closure.cs_id, closure.params, "eta", NoEnv))

(* Rule 12 - Applying Y *)
Rule12f(m) ==
    LET m1 == PopV(PopC(m))
        n == Len(m1.value_stack)
    IN  IF n = 0 THEN Raise(m1, "IndexError")
        ELSE IF IsObj(m1.value_stack[n], "Closure") THEN
            LET closure == m1.closures[m1.value_stack[n].ref]
            IN  NewClosure(PopV(m1), Closure(closure.cs_id, closure.params, "eta", closure.env))
        ELSE Raise(m1, "ValueError")

(* Rule 13 - Applying F to YF *)
Rule13f(m) ==
    LET eta == m.closures[Top(m.value_stack).ref]
        m1 == [m EXCEPT !.control_stack = Append(@, KW("gamma"))]
    IN  NewClosure(m1, Closure(eta.cs_id, eta.params, "lambda", eta.env))

(* the final else: no rule handles the top of C *)
NoRulef(m) == Raise(m, "ValueError")

(***************************************************************************)
(* Programs: the trees the parser builds for the source texts named in the *)
(* comments.                                                               *)
(***************************************************************************)
Var(n) == Leaf(ID(n))

Num(ds) == Leaf(INT(ds))

(* a string literal: the lexeme keeps its quotes *)
Lit(chars) == Leaf(STR(<<"\"">> \o chars \o <<"\"">>))

Word(w) == Leaf(KW(w))

Gamma(f, a) == AST(KW("gamma"), <<f, a>>)

Bin(op, a, b) == AST(KW(op), <<a, b>>)

Let(d, e) == AST(KW("let"), <<d, e>>)

Def(x, e) == AST(KW("="), <<x, e>>)

FunctionForm(kids) == AST(KW("function_form"), kids)

Cond(b, t, f) == AST(KW("->"), <<b, t, f>>)

Tau(kids) == AST(KW("tau"), kids)

(* n eq 0 -> 1 | n * f (n-1) *)
FactBody ==
    Cond(Bin("eq", Var("n"), Num(<<"0">>)), Num(<<"1">>),
         Bin("*", Var("n"), Gamma(Var("f"), Bin("-", Var("n"), Num(<<"1">>)))))

(* let rec f n = n eq 0 -> 1 | n * f (n-1) in f k *)
FactProgram(k) ==
    Let(AST(KW("rec"), <<FunctionForm(<<Var("f"), Var("n"), FactBody>>)>>),
        Gamma(Var("f"), Num(k)))

(* let f = "Y_star" (fn f n . n eq 0 -> 1 | n * f (n-1)) in f k *)
YStarProgram(k) ==
    Let(Def(Var("f"), Gamma(Lit(Y_STAR), AST(KW("lambda"), <<Var("f"), Var("n"), FactBody>>))),
        Gamma(Var("f"), Num(k)))

(* let add x y = x + y in let a = add 1 in let b = add 2 in c 10 *)
AddProgram(c) ==
    Let(FunctionForm(<<Var("add"), Var("x"), Var("y"), Bin("+", Var("x"), Var("y"))>>),
        Let(Def(Var("a"), Gamma(Var("add"), Num(<<"1">>))),
            Let(Def(Var("b"), Gamma(Var("add"), Num(<<"2">>))),
                Gamma(Var(c), Num(<<"1", "0">>)))))

(* let t = (1,2) in let u = t aug 3 in t *)
AugProgram ==
    Let(Def(Var("t"), Tau(<<Num(<<"1">>), Num(<<"2">>)>>)),
        Let(Def(Var("u"), Bin("aug", Var("t"), Num(<<"3">>))), Var("t")))

(* let S = "abc" in Conc (Stem S) (Stern S) *)
ConcSeedProgram ==
    Let(Def(Var("S"), Lit(<<"a", "b", "c">>)),
        Gamma(Gamma(Var("Conc"), Gamma(Var("Stem"), Var("S"))), Gamma(Var("Stern"), Var("S"))))

(* Conc "a" "b" *)
ConcProgram == Gamma(Gamma(Var("Conc"), Lit(<<"a">>)), Lit(<<"b">>))

(* let x = "a" within y = Conc x in y "b" *)
WithinProgram ==
    Let(AST(KW("within"), <<Def(Var("x"), Lit(<<"a">>)), Def(Var("y"), Gamma(Var("Conc"), Var("x")))>>),
        Gamma(Var("y"), Lit(<<"b">>)))

(* let x = Print 1 in Print "b" *)
PrintTwiceProgram ==
    Let(Def(Var("x"), Gamma(Var("Print"), Num(<<"1">>))), Gamma(Var("Print"), Lit(<<"b">>)))

(* (Print 1) + 2 *)
PrintPlusProgram == Bin("+", Gamma(Var("Print"), Num(<<"1">>)), Num(<<"2">>))

(* let P (a,b) = a+b in P arg *)
PairProgram(arg) ==
    Let(FunctionForm(<<Var("P"), AST(KW(","), <<Var("a"), Var("b")>>),
                       Bin("+", Var("a"), Var("b"))>>),
        Gamma(Var("P"), arg))

(* let x = 1 and y = 2 in x + y *)
AndProgram ==
    Let(AST(KW("and"), <<Def(Var("x"), Num(<<"1">>)), Def(Var("y"), Num(<<"2">>))>>),
        Bin("+", Var("x"), Var("y")))

(* x + 1 where x = 2 *)
WhereProgram == AST(KW("where"), <<Bin("+", Var("x"), Num(<<"1">>)), Def(Var("x"), Num(<<"2">>))>>)

(* "a" @Conc "b" *)
AtProgram == AST(KW("@"), <<Lit(<<"a">>), Var("Conc"), Lit(<<"b">>)>>)

(* let f () = 1 in f nil *)
UnitProgram == Let(FunctionForm(<<Var("f"), Word("()"), Num(<<"1">>)>>), Gamma(Var("f"), Word("nil")))

(* (fn x y . x + y) 1 2 *)
FnTwoProgram ==
    Gamma(Gamma(AST(KW("lambda"), <<Var("x"), Var("y"), Bin("+", Var("x"), Var("y"))>>),
                Num(<<"1">>)), Num(<<"2">>))

(* let rec f x = x and g = 2 in f g *)
RecAndProgram ==
    Let(AST(KW("and"), <<AST(KW("rec"), <<FunctionForm(<<Var("f"), Var("x"), Var("x")>>)>>),
                         Def(Var("g"), Num(<<"2">>))>>),
        Gamma(Var("f"), Var("g")))

(* let x = 1 within rec f y = x in f 2 *)
WithinRecProgram ==
    Let(AST(KW("within"), <<Def(Var("x"), Num(<<"1">>)),
                            AST(KW("rec"), <<FunctionForm(<<Var("f"), Var("y"), Var("x")>>)>>)>>),
        Gamma(Var("f"), Num(<<"2">>)))

(* "a" @Conc "b" @Conc "c" *)
AtAtProgram ==
    AST(KW("@"), <<AST(KW("@"), <<Lit(<<"a">>), Var("Conc"), Lit(<<"b">>)>>), Var("Conc"), Lit(<<"c">>)>>)

(* f 1 where rec f x = x *)
WhereRecProgram ==
    AST(KW("where"), <<Gamma(Var("f"), Num(<<"1">>)),
                       AST(KW("rec"), <<FunctionForm(<<Var("f"), Var("x"), Var("x")>>)>>)>>)

(* (fn (x,y) z . x + z) (1,2) 3 *)
FnPairProgram ==
    Gamma(Gamma(AST(KW("lambda"), <<AST(KW(","), <<Var("x"), Var("y")>>), Var("z"),
                                    Bin("+", Var("x"), Var("z"))>>),
                Tau(<<Num(<<"1">>), Num(<<"2">>)>>)), Num(<<"3">>))

(* (1 + 1, "a", (3, 4), 5 - 2) *)
TupleMixedProgram ==
    Tau(<<Bin("+", Num(<<"1">>), Num(<<"1">>)), Lit(<<"a">>),
          Tau(<<Num(<<"3">>), Num(<<"4">>)>>), Bin("-", Num(<<"5">>), Num(<<"2">>))>>)

(* let t = (1,2) in t op t *)
SameTupleProgram(op) ==
    Let(Def(Var("t"), Tau(<<Num(<<"1">>), Num(<<"2">>)>>)), Bin(op, Var("t"), Var("t")))

(* the argument expressions of the one-argument programs "B arg" *)
ArgNames == <<"3", "0", "true", "false", "'ab'", "''", "nil", "dummy", "(1,2)",
              "fn x.x", "Print", "ItoS 3", "Stem ''", "nil aug 1", "7/2">>

ArgExpr(a) ==
    CASE a = "3" -> Num(<<"3">>)
      [] a = "0" -> Num(<<"0">>)
      [] a = "true" -> Word("true")
      [] a = "false" -> Word("false")
      [] a = "'ab'" -> Lit(<<"a", "b">>)
      [] a = "''" -> Lit(<<>>)
      [] a = "nil" -> Word("nil")
      [] a = "dummy" -> Word("dummy")
      [] a = "(1,2)" -> Tau(<<Num(<<"1">>), Num(<<"2">>)>>)
      [] a = "fn x.x" -> AST(KW("lambda"), <<Var("x"), Var("x")>>)
      [] a = "Print" -> Var("Print")
      [] a = "ItoS 3" -> Gamma(Var("ItoS"), Num(<<"3">>))
      [] a = "Stem ''" -> Gamma(Var("Stem"), Lit(<<>>))
      [] a = "nil aug 1" -> Bin("aug", Word("nil"), Num(<<"1">>))
      [] a = "7/2" -> Bin("/", Num(<<"7">>), Num(<<"2">>))
      [] a = "7" -> Num(<<"7">>)
      [] a = "2" -> Num(<<"2">>)
      [] a = "10" -> Num(<<"1", "0">>)
      [] a = "(1,3)" -> Tau(<<Num(<<"1">>), Num(<<"3">>)>>)

(* the programs that are not of the form "B arg": name and tree *)
(* let P t = t in P (3,4) *)
WholeTupleProgram ==
    Let(FunctionForm(<<Var("P"), Var("t"), Var("t")>>),
        Gamma(Var("P"), Tau(<<Num(<<"3">>), Num(<<"4">>)>>)))

(* (fn (a,b,c) . a) (1,2) *)
TripleProgram ==
    Gamma(AST(KW("lambda"), <<AST(KW(","), <<Var("a"), Var("b"), Var("c")>>), Var("a")>>),
          Tau(<<Num(<<"1">>), Num(<<"2">>)>>))

(* ((1,2), 5, 7) i *)
IndexProgram(i) ==
    Gamma(Tau(<<Tau(<<Num(<<"1">>), Num(<<"2">>)>>), Num(<<"5">>), Num(<<"7">>)>>), i)

(* let x = 1 in let name = 2 in body *)
NestedLet(name, body) ==
    Let(Def(Var("x"), Num(<<"1">>)), Let(Def(Var(name), Num(<<"2">>)), body))

(* B -> Print 1 | Print 2 *)
PrintArms(b) ==
    Cond(b, Gamma(Var("Print"), Num(<<"1">>)), Gamma(Var("Print"), Num(<<"2">>)))

(* (fn x. x eq 0 -> x + 1 | x - 1) 0 *)
CondInFnProgram ==
    Gamma(AST(KW("lambda"),
              <<Var("x"),
                Cond(Bin("eq", Var("x"), Num(<<"0">>)),
                     Bin("+", Var("x"), Num(<<"1">>)),
                     Bin("-", Var("x"), Num(<<"1">>)))>>),
          Num(<<"0">>))

(* true -> (fn x. x) 1 | (fn y. fn z. y) 2 3 *)
FnInArmProgram ==
    Cond(Word("true"),
         Gamma(AST(KW("lambda"), <<Var("x"), Var("x")>>), Num(<<"1">>)),
         Gamma(Gamma(AST(KW("lambda"),
                         <<Var("y"), AST(KW("lambda"), <<Var("z"), Var("y")>>)>>),
                     Num(<<"2">>)),
               Num(<<"3">>)))

(* x - y - z *)
MinusMinus == Bin("-", Bin("-", Var("x"), Var("y")), Var("z"))

(* let f x y z = x - y - z in f 7 2 1 *)
FunctionThreeProgram ==
    Let(FunctionForm(<<Var("f"), Var("x"), Var("y"), Var("z"), MinusMinus>>),
        Gamma(Gamma(Gamma(Var("f"), Num(<<"7">>)), Num(<<"2">>)), Num(<<"1">>)))

(* (fn x y z. x - y - z) 7 2 1 *)
FnThreeProgram ==
    Gamma(Gamma(Gamma(AST(KW("lambda"), <<Var("x"), Var("y"), Var("z"), MinusMinus>>),
                      Num(<<"7">>)), Num(<<"2">>)), Num(<<"1">>))

(* let x = 1 within y = x + 1 in body *)
WithinLet(body) ==
    Let(AST(KW("within"), <<Def(Var("x"), Num(<<"1">>)),
                            Def(Var("y"), Bin("+", Var("x"), Num(<<"1">>)))>>),
        body)

NamedPrograms ==
    <<[name |-> "fact 0", ast |-> FactProgram(<<"0">>)],
      [name |-> "fact 5", ast |-> FactProgram(<<"5">>)],
      [name |-> "ystar 2", ast |-> YStarProgram(<<"2">>)],
      [name |-> "add a", ast |-> AddProgram("a")],
      [name |-> "add b", ast |-> AddProgram("b")],
      [name |-> "aug", ast |-> AugProgram],
      [name |-> "conc seed", ast |-> ConcSeedProgram],
      [name |-> "conc", ast |-> ConcProgram],
      [name |-> "within", ast |-> WithinProgram],
      [name |-> "print twice", ast |-> PrintTwiceProgram],
      [name |-> "print plus", ast |-> PrintPlusProgram],
      [name |-> "pair 3", ast |-> PairProgram(Num(<<"3">>))],
      [name |-> "pair (3,4)", ast |-> PairProgram(Tau(<<Num(<<"3">>), Num(<<"4">>)>>))],
      [name |-> "and", ast |-> AndProgram],
      [name |-> "where", ast |-> WhereProgram],
      [name |-> "at", ast |-> AtProgram],
      [name |-> "unit", ast |-> UnitProgram],
      [name |-> "not", ast |-> AST(KW("not"), <<Word("true")>>)],
      [name |-> "neg", ast |-> AST(KW("neg"), <<Num(<<"3">>)>>)],
      [name |-> "index", ast |-> Gamma(Tau(<<Num(<<"1">>), Num(<<"2">>)>>), Num(<<"2">>))],
      [name |-> "cond", ast |-> Cond(Bin("eq", Num(<<"1">>), Num(<<"1">>)), Num(<<"2">>), Num(<<"3">>))],
      [name |-> "tuple 3", ast |-> Tau(<<Num(<<"3">>), Num(<<"1">>), Num(<<"2">>)>>)],
      [name |-> "tuple mixed", ast |-> TupleMixedProgram],
      [name |-> "fn x y", ast |-> FnTwoProgram],
      [name |-> "rec and", ast |-> RecAndProgram],
      [name |-> "within rec", ast |-> WithinRecProgram],
      [name |-> "at at", ast |-> AtAtProgram],
      [name |-> "where rec", ast |-> WhereRecProgram],
      [name |-> "fn (x,y) z", ast |-> FnPairProgram],
      [name |-> "same tuple eq", ast |-> SameTupleProgram("eq")],
      [name |-> "same tuple ne", ast |-> SameTupleProgram("ne")],
      [name |-> "10 - 3", ast |-> Bin("-", ArgExpr("10"), ArgExpr("3"))],
      [name |-> "cond true", ast |-> PrintArms(Word("true"))],
      [name |-> "cond false", ast |-> PrintArms(Word("false"))],
      [name |-> "cond ls", ast |-> PrintArms(Bin("ls", Num(<<"2">>), Num(<<"1">>)))],
      [name |-> "cond nested",
       ast |-> Cond(Word("true"), Cond(Word("false"), Num(<<"1">>), Num(<<"2">>)), Num(<<"3">>))],
      [name |-> "cond in fn", ast |-> CondInFnProgram],
      [name |-> "pair (1,2,3)",
       ast |-> PairProgram(Tau(<<Num(<<"1">>), Num(<<"2">>), Num(<<"3">>)>>))],
      [name |-> "whole (3,4)", ast |-> WholeTupleProgram],
      [name |-> "triple (1,2)", ast |-> TripleProgram],
      [name |-> "index 0", ast |-> IndexProgram(Num(<<"0">>))],
      [name |-> "index 1", ast |-> IndexProgram(Num(<<"1">>))],
      [name |-> "index 3", ast |-> IndexProgram(Num(<<"3">>))],
      [name |-> "index 4", ast |-> IndexProgram(Num(<<"4">>))],
      [name |-> "index -1", ast |-> IndexProgram(AST(KW("neg"), <<Num(<<"1">>)>>))],
      [name |-> "shadow", ast |-> NestedLet("x", Var("x"))],
      [name |-> "outer", ast |-> NestedLet("y", Bin("+", Var("x"), Var("y")))],
      [name |-> "inner builtin", ast |-> NestedLet("y", Gamma(Var("Isinteger"), Var("y")))],
      [name |-> "shadow builtin", ast |-> NestedLet("Order", Var("Order"))],
      [name |-> "unbound inner", ast |-> NestedLet("y", Var("z"))],
      [name |-> "unbound", ast |-> Bin("+", Num(<<"1">>), Var("z"))],
      [name |-> "fn in arm", ast |-> FnInArmProgram],
      [name |-> "index true", ast |-> Gamma(Tau(<<Num(<<"1">>), Num(<<"2">>)>>), Word("true"))],
      [name |-> "index false", ast |-> Gamma(Tau(<<Num(<<"1">>), Num(<<"2">>)>>), Word("false"))],
      [name |-> "index string", ast |-> Gamma(Tau(<<Num(<<"1">>), Num(<<"2">>)>>), Lit(<<"a">>))],
      [name |-> "apply 5", ast |-> Gamma(Num(<<"5">>), Num(<<"3">>))],
      [name |-> "let sibling",
       ast |-> Bin("+", Let(Def(Var("x"), Num(<<"1">>)), Var("x")), Num(<<"2">>))],
      [name |-> "where sibling", ast |-> Bin("+", WhereProgram, Num(<<"2">>))],
      [name |-> "let pair",
       ast |-> Let(Def(AST(KW(","), <<Var("a"), Var("b")>>), Tau(<<Num(<<"1">>), Num(<<"2">>)>>)),
                   Bin("+", Var("a"), Var("b")))],
      [name |-> "f x y z", ast |-> FunctionThreeProgram],
      [name |-> "fn x y z", ast |-> FnThreeProgram],
      [name |-> "within exported", ast |-> WithinLet(Var("y"))],
      [name |-> "within hidden", ast |-> WithinLet(Var("x"))],
      [name |-> "and minus",
       ast |-> Let(AST(KW("and"), <<Def(Var("x"), Num(<<"7">>)), Def(Var("y"), Num(<<"2">>))>>),
                   Bin("-", Var("x"), Var("y")))],
      [name |-> "and three",
       ast |-> Let(AST(KW("and"), <<Def(Var("x"), Num(<<"7">>)), Def(Var("y"), Num(<<"2">>)),
                                    Def(Var("z"), Num(<<"1">>))>>),
                   MinusMinus)],
      [name |-> "rec pair",
       ast |-> Let(AST(KW("rec"), <<Def(AST(KW(","), <<Var("a"), Var("b")>>),
                                        Tau(<<Num(<<"1">>), Num(<<"2">>)>>))>>),
                   Var("a"))],
      [name |-> "rec fn",
       ast |-> Let(AST(KW("rec"), <<Def(Var("f"), AST(KW("lambda"), <<Var("n"), Var("n")>>))>>),
                   Gamma(Var("f"), Num(<<"1">>)))]>>

BuiltinOrder == <<"Print", "Isinteger", "Istruthvalue", "Isstring", "Istuple",
                  "Isfunction", "Isdummy", "Stem", "Stern", "Conc", "ItoS",
                  "Order", "Null">>

(* the operators and operands of the programs "a op b" *)
OrderedOps == {"-", "/", "**", "gr", "ge", "ls", "le"}

NumberArgs == {"7", "2", "3"}

EqualityOps == {"eq", "ne"}

EqualityArgs == {"3", "0", "true", "false", "'ab'", "''", "(1,2)", "(1,3)"}

(* the programs "a op b" over operands of every kind *)
MixedOps == {"+", "-", "*", "/", "**", "gr", "ge", "ls", "le", "&", "or", "aug"}

MixedArgs == {"3", "true", "'ab'", "(1,2)", "nil", "dummy", "fn x.x"}

(* the programs "op a" over the same operands *)
UnaryOps == {"not", "neg"}

(***************************************************************************)
(* LexicalAnalyzer and its Scanner. A source text is a sequence of         *)
(* characters and a lexeme the sequence of its characters; s is the        *)
(* analyzer: source, current_pos (from 0, as Scanner counts), tokens, the  *)
(* lines written to standard output, and err, the exception raised. The    *)
(* line and column of a token are left out.                                *)
(***************************************************************************)
Letters ==
    {"a", "b", "c", "d", "e", "f", "g", "h", "i", "j", "k", "l", "m", "n", "o", "p", "q",
     "r", "s", "t", "u", "v", "w", "x", "y", "z", "A", "B", "C", "D", "E", "F", "G", "H",
     "I", "J", "K", "L", "M", "N", "O", "P", "Q", "R", "S", "T", "U", "V", "W", "X", "Y", "Z"}

(* str.isalpha, str.isdigit, str.isalnum, str.isspace on ASCII *)
isalpha(char) == char \in Letters

isdigit(char) == \E k \in 1..Len(Digits) : Digits[k] = char

isalnum(char) == isalpha(char) \/ isdigit(char)

isspace(char) == char \in {" ", "\n", "\t"}

(* what advance and peek return at the end of the source *)
NoChar == "None"

keywords ==
    <<[word |-> <<"l", "e", "t">>, token_type |-> "let"],
      [word |-> <<"i", "n">>, token_type |-> "in"],
      [word |-> <<"f", "n">>, token_type |-> "fn"],
      [word |-> <<"w", "h", "e", "r", "e">>, token_type |-> "where"],
      [word |-> <<"t", "r", "u", "e">>, token_type |-> "true"],
      [word |-> <<"f", "a", "l", "s", "e">>, token_type |-> "false"],
      [word |-> <<"n", "i", "l">>, token_type |-> "nil"],
      [word |-> <<"d", "u", "m", "m", "y">>, token_type |-> "dummy"],
      [word |-> <<"w", "i", "t", "h", "i", "n">>, token_type |-> "within"],
      [word |-> <<"r", "e", "c">>, token_type |-> "rec"],
      [word |-> <<"a", "u", "g">>, token_type |-> "aug"],
      [word |-> <<"o", "r">>, token_type |-> "or"],
      [word |-> <<"a", "n", "d">>, token_type |-> "and"],
      [word |-> <<"n", "o", "t">>, token_type |-> "not"],
      [word |-> <<"g", "r">>, token_type |-> "gr"],
      [word |-> <<"g", "e">>, token_type |-> "ge"],
      [word |-> <<"l", "s">>, token_type |-> "ls"],
      [word |-> <<"l", "e">>, token_type |-> "le"],
      [word |-> <<"e", "q">>, token_type |-> "eq"],
      [word |-> <<"n", "e">>, token_type |-> "ne"]>>

IsKeyword(identifier) == \E k \in 1..Len(keywords) : keywords[k].word = identifier

LexicalAnalyzer(source) ==
    [source |-> source, current_pos |-> 0, tokens |-> <<>>, stdout |-> <<>>, err |-> ""]

is_at_end(s) == s.current_pos >= Len(s.source)

peek(s) == IF is_at_end(s) THEN NoChar ELSE s.source[s.current_pos + 1]

(* Scanner.advance: the character it returns is peek(s) *)
advance(s) == IF is_at_end(s) THEN s ELSE [s EXCEPT !.current_pos = @ + 1]

(* self.tokens.append(Token(token_type, lexeme, line, column)) *)
AppendToken(s, token_type, lexeme) ==
    [s EXCEPT !.tokens = Append(@, Token(token_type, lexeme))]

(* consume_string, then the STRING token: the opening quote is consumed *)
RECURSIVE consume_string(_, _)
consume_string(s, string_literal) ==
    LET char == peek(s)
    IN  IF char = "\"" THEN AppendToken(advance(s), "STRING", Append(string_literal, char))
        ELSE IF char = NoChar THEN [s EXCEPT !.err = "ValueError"]
        ELSE consume_string(advance(s), Append(string_literal, char))

(* consume_number, then the INTEGER token *)
RECURSIVE consume_number(_, _)
consume_number(s, number) ==
    LET char == peek(s)
    IN  IF char = NoChar \/ ~isdigit(char) THEN AppendToken(s, "INTEGER", number)
        ELSE consume_number(advance(s), Append(number, char))

(* consume_identifier, then the keyword or IDENTIFIER token *)
RECURSIVE consume_identifier(_, _)
consume_identifier(s, identifier) ==
    LET char == peek(s)
    IN  IF char = NoChar \/ ~(isalnum(char) \/ char = "_")
        THEN AppendToken(s,
                         IF IsKeyword(identifier)
                         THEN keywords[CHOOSE k \in 1..Len(keywords) :
                                           keywords[k].word = identifier].token_type
                         ELSE "IDENTIFIER",
                         identifier)
        ELSE consume_identifier(advance(s), Append(identifier, char))

(* "while self.scanner.peek() not in (None, '\n'): self.scanner.advance()" *)
RECURSIVE SkipComment(_)
SkipComment(s) ==
    IF peek(s) \in {NoChar, "\n"} THEN s ELSE SkipComment(advance(s))

(* a symbol that a second character extends: with it one token, without    *)
(* it another                                                              *)
TwoCharacters(s, char, second, long_type, short_type) ==
    IF peek(s) = second THEN AppendToken(advance(s), long_type, <<char, second>>)
    ELSE AppendToken(s, short_type, <<char>>)

(* scan_token: s has not yet advanced over char *)
RECURSIVE scan_token(_)
scan_token(s) ==
    LET char == peek(s)
        a == advance(s)
    IN  IF char = NoChar THEN s
        ELSE IF isspace(char) THEN scan_token(a)
        ELSE IF char = "\"" THEN consume_string(a, <<char>>)
        ELSE IF isdigit(char) THEN consume_number(a, <<char>>)
        ELSE IF isalpha(char) THEN consume_identifier(a, <<char>>)
        ELSE IF char = "(" THEN AppendToken(a, "(", <<char>>)
        ELSE IF char = ")" THEN AppendToken(a, ")", <<char>>)
        ELSE IF char = ">" THEN TwoCharacters(a, char, "=", "ge", "gr")
        ELSE IF char = "<" THEN TwoCharacters(a, char, "=", "le", "ls")
        ELSE IF char = "+" THEN AppendToken(a, "+", <<char>>)
        ELSE IF char = "-" THEN TwoCharacters(a, char, ">", "->", "-")
        ELSE IF char = "*" THEN TwoCharacters(a, char, "*", "**", "*")
        ELSE IF char = "/"
        THEN IF peek(a) = "/" THEN scan_token(advance(SkipComment(a)))
             ELSE AppendToken(a, "/", <<char>>)
        ELSE IF char \in {"=", ".", ",", "|", "&", "@"} THEN AppendToken(a, char, <<char>>)
        ELSE [a EXCEPT !.err = "ValueError"]

(* the list of lexemes as print writes it: ['let', 'x'] *)
RECURSIVE LexemeList(_, _)
LexemeList(tokens, i) ==
    IF i > Len(tokens) THEN <<>>
    ELSE (IF i > 1 THEN <<", ">> ELSE <<>>) \o <<"'">> \o tokens[i].lexeme \o <<"'">>
         \o LexemeList(tokens, i + 1)

(* print("Scanned so far: %s", [str(x.lexeme) for x in self.tokens]) *)
ScannedSoFar(s) ==
    [s EXCEPT !.stdout = Append(@, <<"Scanned so far: %s ", "[">> \o LexemeList(s.tokens, 1)
                                   \o <<"]">>)]

(* get_tokens: scan to the end of the source, then append EOF *)
RECURSIVE get_tokens(_)
get_tokens(s) ==
    IF s.err # "" THEN s
    ELSE IF is_at_end(s) THEN AppendToken(s, "EOF", <<"E", "O", "F">>)
    ELSE get_tokens(scan_token(ScannedSoFar(s)))

(* the token stream of a source text of one-digit integers, operators and  *)
(* parentheses, as LexicalAnalyzer.get_tokens returns it: EOF comes last    *)
Tokens(lexemes) ==
    [i \in 1..(Len(lexemes) + 1) |->
        IF i > Len(lexemes) THEN Token("EOF", <<"E", "O", "F">>)
        ELSE IF \E k \in 1..Len(Digits) : Digits[k] = lexemes[i] THEN Token("INTEGER", <<lexemes[i]>>)
        ELSE Token(lexemes[i], <<lexemes[i]>>)]

(* the programs that are given as source text and go through the parser *)
SourcePrograms ==
    <<[name |-> "1+2*3", tokens |-> Tokens(<<"1", "+", "2", "*", "3">>)],
      [name |-> "(1+2)*3", tokens |-> Tokens(<<"(", "1", "+", "2", ")", "*", "3">>)],
      [name |-> "2**3**2", tokens |-> Tokens(<<"2", "**", "3", "**", "2">>)],
      [name |-> "-1+2", tokens |-> Tokens(<<"-", "1", "+", "2">>)],
      [name |-> "7-2-1", tokens |-> Tokens(<<"7", "-", "2", "-", "1">>)],
      [name |-> "2*3+1", tokens |-> Tokens(<<"2", "*", "3", "+", "1">>)],
      [name |-> "-2**2", tokens |-> Tokens(<<"-", "2", "**", "2">>)],
      [name |-> "8/4/2", tokens |-> Tokens(<<"8", "/", "4", "/", "2">>)],
      [name |-> "2*(3+4)*5", tokens |-> Tokens(<<"2", "*", "(", "3", "+", "4", ")", "*", "5">>)],
      [name |-> "2*3**2", tokens |-> Tokens(<<"2", "*", "3", "**", "2">>)],
      [name |-> "-2*3", tokens |-> Tokens(<<"-", "2", "*", "3">>)],
      [name |-> "1+-2", tokens |-> Tokens(<<"1", "+", "-", "2">>)],
      [name |-> "(1+2", tokens |-> Tokens(<<"(", "1", "+", "2">>)]>>

Source(a) == [f |-> "source", a |-> a, b |-> ""]

TokensOf(p) ==
    SourcePrograms[CHOOSE i \in 1..Len(SourcePrograms) : SourcePrograms[i].name = p.a].tokens

(* the programs that are given as text and go through the lexer: names,   *)
(* keywords, definitions, functions, and texts the lexer or the parser     *)
(* does not accept                                                         *)
TextPrograms ==
    <<[name |-> "myVar _test var123 Print",
       source |->
          <<"m", "y", "V", "a", "r", " ", "_", "t", "e", "s", "t", " ",
            "v", "a", "r", "1", "2", "3", " ", "P", "r", "i", "n", "t">>],
      [name |-> "myVar var123 Print",
       source |->
          <<"m", "y", "V", "a", "r", " ", "v", "a", "r", "1", "2", "3",
            " ", "P", "r", "i", "n", "t">>],
      [name |-> "x_1 letx in_1",
       source |->
          <<"x", "_", "1", " ", "l", "e", "t", "x", " ", "i", "n", "_",
            "1">>],
      [name |-> "_test",
       source |->
          <<"_", "t", "e", "s", "t">>],
      [name |-> "let x = in y",
       source |->
          <<"l", "e", "t", " ", "x", " ", "=", " ", "i", "n", " ", "y">>],
      [name |-> "(1 + 2",
       source |->
          <<"(", "1", " ", "+", " ", "2">>],
      [name |-> "fn x",
       source |->
          <<"f", "n", " ", "x">>],
      [name |-> "fn x 5 . x",
       source |->
          <<"f", "n", " ", "x", " ", "5", " ", ".", " ", "x">>],
      [name |-> "let f x 5 = 1 in f",
       source |->
          <<"l", "e", "t", " ", "f", " ", "x", " ", "5", " ", "=", " ",
            "1", " ", "i", "n", " ", "f">>],
      [name |-> "let f x in 3",
       source |->
          <<"l", "e", "t", " ", "f", " ", "x", " ", "i", "n", " ", "3">>],
      [name |-> "fn x = 3",
       source |->
          <<"f", "n", " ", "x", " ", "=", " ", "3">>],
      [name |-> "let in 5",
       source |->
          <<"l", "e", "t", " ", "i", "n", " ", "5">>],
      [name |-> "fn . 5",
       source |->
          <<"f", "n", " ", ".", " ", "5">>],
      [name |-> "1 )",
       source |->
          <<"1", " ", ")">>],
      [name |-> "let x = 1 in",
       source |->
          <<"l", "e", "t", " ", "x", " ", "=", " ", "1", " ", "i", "n">>],
      [name |-> "let x 1",
       source |->
          <<"l", "e", "t", " ", "x", " ", "1">>],
      [name |-> "let x",
       source |->
          <<"l", "e", "t", " ", "x">>],
      [name |-> "let (x = 1 in x",
       source |->
          <<"l", "e", "t", " ", "(", "x", " ", "=", " ", "1", " ", "i",
            "n", " ", "x">>],
      [name |-> "fn (x . x",
       source |->
          <<"f", "n", " ", "(", "x", " ", ".", " ", "x">>],
      [name |-> "fn ( . 1",
       source |->
          <<"f", "n", " ", "(", " ", ".", " ", "1">>],
      [name |-> "let x = 1 in x + 2",
       source |->
          <<"l", "e", "t", " ", "x", " ", "=", " ", "1", " ", "i", "n",
            " ", "x", " ", "+", " ", "2">>],
      [name |-> "(fn x . x + 1) 2",
       source |->
          <<"(", "f", "n", " ", "x", " ", ".", " ", "x", " ", "+", " ",
            "1", ")", " ", "2">>],
      [name |-> "let f x = x * 2 in f 3",
       source |->
          <<"l", "e", "t", " ", "f", " ", "x", " ", "=", " ", "x", " ",
            "*", " ", "2", " ", "i", "n", " ", "f", " ", "3">>],
      [name |-> "let (x = 3) in x ** 2",
       source |->
          <<"l", "e", "t", " ", "(", "x", " ", "=", " ", "3", ")", " ",
            "i", "n", " ", "x", " ", "*", "*", " ", "2">>],
      [name |-> "fn () . 1",
       source |->
          <<"f", "n", " ", "(", ")", " ", ".", " ", "1">>],
      [name |-> "let f (x) y = x - y in f 5 2",
       source |->
          <<"l", "e", "t", " ", "f", " ", "(", "x", ")", " ", "y", " ",
            "=", " ", "x", " ", "-", " ", "y", " ", "i", "n", " ", "f",
            " ", "5", " ", "2">>],
      [name |-> "12 >= 3 -> 4 <= 5 > 6 < 7 #",
       source |->
          <<"1", "2", " ", ">", "=", " ", "3", " ", "-", ">", " ", "4",
            " ", "<", "=", " ", "5", " ", ">", " ", "6", " ", "<", " ",
            "7", " ", "#">>],
      [name |-> "1 // c NL + 2",
       source |->
          <<"1", " ", "/", "/", " ", "c", "\n", "+", " ", "2">>],
      [name |-> "unterminated string",
       source |->
          <<"\"", "a", "b">>],
      [name |-> "string and symbols",
       source |->
          <<"\"", "a", "b", "\"", " ", ",", " ", "|", " ", "&", " ",
            "@", " ", "$">>]>>

Text(a) == [f |-> "text", a |-> a, b |-> ""]

SourceOf(p) ==
    TextPrograms[CHOOSE i \in 1..Len(TextPrograms) : TextPrograms[i].name = p.a].source

(* the files of the command line: the name of a file that is not there, or *)
(* a file holding the program text *)
MissingFile == "missing"

CliFiles == {MissingFile, "1+2*3", "1 eq 1", "(1+2"}

(* the options of the command line *)
CliFlags == {"", "-ast", "-st", "-ast -st"}

Cli(flags, file) == [f |-> "cli", a |-> flags, b |-> file]

(* a program is named by [f, a, b]: the program "f a" of a built-in or a   *)
(* unary operator f and an argument expression a; the program "a f b" of   *)
(* a binary operator f and two operand expressions; with f = "", the named *)
(* program a; with                                                         *)
(* f = "source", the token stream a; with f = "text", the source text a;   *)
(* with f = "cli", the command line with the options a and the file b      *)
ProgramIds ==
    {[f |-> "", a |-> NamedPrograms[i].name, b |-> ""] : i \in 1..Len(NamedPrograms)} \cup
    {[f |-> BuiltinOrder[i], a |-> ArgNames[j], b |-> ""] :
        i \in 1..Len(BuiltinOrder), j \in 1..Len(ArgNames)} \cup
    [f : OrderedOps, a : NumberArgs, b : NumberArgs] \cup
    [f : EqualityOps, a : EqualityArgs, b : EqualityArgs] \cup
    [f : MixedOps, a : MixedArgs, b : MixedArgs] \cup
    [f : UnaryOps, a : MixedArgs, b : {""}] \cup
    {Source(SourcePrograms[i].name) : i \in 1..Len(SourcePrograms)} \cup
    {Text(TextPrograms[i].name) : i \in 1..Len(TextPrograms)} \cup
    {Cli(flags, file) : flags \in CliFlags, file \in CliFiles}

ProgramAst(p) ==
    IF p.f = ""
    THEN NamedPrograms[CHOOSE i \in 1..Len(NamedPrograms) : NamedPrograms[i].name = p.a].ast
    ELSE IF p.f \in UnaryOps THEN AST(KW(p.f), <<ArgExpr(p.a)>>)
    ELSE IF p.b = "" THEN Gamma(Var(p.f), ArgExpr(p.a))
    ELSE Bin(p.f, ArgExpr(p.a), ArgExpr(p.b))

(* the longest run of apply_rule calls that is followed *)
MaxSteps == 60

VARIABLES
    prog,               \* the program being run
    pc,                 \* "parsed", "standardized", "running", "returned", "raised"
    tokens,             \* LexicalAnalyzer.tokens, then Parser.tokens
    nodes,              \* the heap of Node objects
    root,               \* the AST, then the ST
    env_stack,          \* CSEMachine.env_stack: env ids, top last
    control_stack,      \* CSEMachine.control_stack, top last
    value_stack,        \* CSEMachine.value_stack, top last
    control_structures, \* CSEMachine.control_structures: id -> body
    closures,           \* the heap of Closure objects
    tuples,             \* the heap of Tuple objects: ref -> values
    envs,               \* the Environment objects: env_id -> [parent, bindings]
    last_env_id,
    last_cs_id,
    result,             \* what evaluate returned
    error,              \* the exception that ended evaluate, "" if none
    stdout,             \* what the machine has written to standard output
    steps,              \* number of apply_rule calls made
    rule,               \* the rule the last apply_rule call selected, -1 before
    machine,            \* 1: the first CSEMachine built from the ST, 2: the second
    first               \* how the first machine ended, once a second one is built

(* a value as a caller sees it: tuples by their elements, closures by     *)
(* their fields                                                            *)
RECURSIVE Shown(_, _, _)
Shown(v, cl, tu) ==
    IF IsObj(v, "Tuple")
    THEN [k |-> "Tuple", values |-> [i \in 1..Len(tu[v.ref]) |-> Shown(tu[v.ref][i], cl, tu)]]
    ELSE IF IsObj(v, "Closure")
    THEN [k |-> "Closure", cs_id |-> cl[v.ref].cs_id, params |-> cl[v.ref].params,
          type |-> cl[v.ref].type, env |-> cl[v.ref].env]
    ELSE v

NoOutcome == [pc |-> "", error |-> "", steps |-> 0, result |-> NoneV]

(* how a machine ended: returned or raised, with what, after how many     *)
(* apply_rule calls                                                        *)
Outcome == [pc |-> pc, error |-> error, steps |-> steps,
            result |-> Shown(result, closures, tuples)]

(***************************************************************************)
(* print(result): the text of str(value).  A line is a sequence of pieces, *)
(* one character each, except that an identifier, a fixed message and the  *)
(* digits of a float beyond FloatDigits are one piece.                     *)
(***************************************************************************)
FloatDigits == 15

RECURSIVE FracDigits(_, _, _)
FracDigits(r, d, n) ==
    IF r = 0 THEN <<>>
    ELSE IF n = 0 THEN <<"...">>
    ELSE <<Digits[((r * 10) \div d) + 1]>> \o FracDigits((r * 10) % d, d, n - 1)

(* float.__repr__: always with a fractional part *)
FloatStr(v) ==
    LET a == Abs(v.num)
    IN  (IF v.num < 0 THEN <<"-">> ELSE <<>>) \o NatToStr(a \div v.den) \o <<".">> \o
        (IF a % v.den = 0 THEN <<"0">> ELSE FracDigits(a % v.den, v.den, FloatDigits))

RECURSIVE JoinPieces(_, _)
JoinPieces(texts, sep) ==
    IF texts = <<>> THEN <<>>
    ELSE IF Len(texts) = 1 THEN texts[1]
    ELSE texts[1] \o sep \o JoinPieces(Tail(texts), sep)

(* repr of one entry of Closure.params, a node value such as '<ID:x>' *)
ParamRepr(p) ==
    IF p.t = "ID" THEN <<"'", "<ID:", p.name, ">", "'">> ELSE <<"'", p.w, "'">>

(* Closure.__str__: <env_id type cs_id params> *)
ClosureStr(c) ==
    <<"<">> \o (IF c.env = NoEnv THEN <<"None">> ELSE NatToStr(c.env)) \o <<" ", c.type, " ">> \o
    NatToStr(c.cs_id) \o <<" ", "[">> \o
    JoinPieces([i \in 1..Len(c.params) |-> ParamRepr(c.params[i])], <<",", " ">>) \o <<"]", ">">>

RECURSIVE ValueStr(_, _, _)
ValueStr(v, cl, tu) ==
    IF v.k \in {"int", "bool"} THEN PyStr(v)
    ELSE IF v.k = "float" THEN FloatStr(v)
    ELSE IF v.k = "str" THEN v.s
    ELSE IF v.k = "Tuple"
    THEN <<"(">> \o JoinPieces([i \in 1..Len(tu[v.ref]) |-> ValueStr(tu[v.ref][i], cl, tu)],
                               <<",", " ">>) \o <<")">>
    ELSE IF v.k = "Closure" THEN ClosureStr(cl[v.ref])
    ELSE IF v.k = "BuiltinFunction" THEN <<"F_", v.name>>
    ELSE IF v.k = "Environment" THEN <<"e", "_">> \o NatToStr(v.id)
    ELSE <<"N", "o", "n", "e">>

OutputHeader == <<"Output of the above program is:">>

(***************************************************************************)
(* The command-line driver                                                 *)
(***************************************************************************)
(* the methods the class LexicalAnalyzer defines *)
LexicalAnalyzerMethods ==
    {"__init__", "scan_token", "consume_string", "consume_number", "consume_identifier",
     "get_tokens"}

(* "Error: {e}" for the AttributeError of a call of a method the object lacks *)
NoAttribute(class, attribute) ==
    <<"Error: ", "'", class, "' object has no attribute '", attribute, "'">>

(* what each of print_ast_only, print_st_only and run_full_interpreter     *)
(* does after reading the file: analyzer.tokenize() is looked up on an     *)
(* object without that method, the AttributeError is caught, reported and  *)
(* the process exits with status 1; nothing after the call is reached      *)
run_full_interpreter(filename) ==
    [stdout |-> <<NoAttribute("LexicalAnalyzer", "tokenize")>>, pc |-> "exit 1"]

print_ast_only(filename) ==
    [stdout |-> <<NoAttribute("LexicalAnalyzer", "tokenize")>>, pc |-> "exit 1"]

print_st_only(filename) ==
    [stdout |-> <<NoAttribute("LexicalAnalyzer", "tokenize")>>, pc |-> "exit 1"]

vars == <<prog, pc, tokens, nodes, root, env_stack, control_stack, value_stack,
          control_structures, closures, tuples, envs, last_env_id, last_cs_id,
          result, error, stdout, steps, rule, machine, first>>

machineVars == <<env_stack, control_stack, value_stack, control_structures,
                 closures, tuples, envs, last_env_id, last_cs_id>>

Init ==
    /\ prog \in ProgramIds
    /\ IF prog.f = "cli"
       THEN pc = "cli" /\ nodes = <<>> /\ root = 0
       ELSE IF prog.f = "source"
       THEN pc = "lexed" /\ nodes = <<>> /\ root = 0
       ELSE IF prog.f = "text"
       THEN pc = "text" /\ nodes = <<>> /\ root = 0
       ELSE /\ pc = "parsed"
            /\ LET b == BuildNode(<<>>, ProgramAst(prog), 0)
               IN  nodes = b.h /\ root = b.id
    /\ tokens = IF prog.f = "source" THEN TokensOf(prog) ELSE <<>>
    /\ env_stack = <<>>
    /\ control_stack = <<>>
    /\ value_stack = <<>>
    /\ control_structures = <<>>
    /\ closures = <<>>
    /\ tuples = <<>>
    /\ envs = <<>>
    /\ last_env_id = 0
    /\ last_cs_id = 1
    /\ result = NoneV
    /\ error = ""
    /\ stdout = <<>>
    /\ steps = 0
    /\ rule = -1
    /\ machine = 0
    /\ first = NoOutcome

(* python myrpal.py [-ast] [-st] filename *)
main ==
    /\ pc = "cli"
    /\ LET run == IF prog.b = MissingFile
                  THEN [stdout |-> <<<<"Error: File '", prog.b, "' not found.">>>>, pc |-> "exit 1"]
                  ELSE IF prog.a = "-ast -st"
                  THEN [stdout |-> <<<<"Error: Cannot use both -ast and -st options together.">>>>,
                        pc |-> "exit 1"]
                  ELSE IF prog.a = "-ast" THEN print_ast_only(prog.b)
                  ELSE IF prog.a = "-st" THEN print_st_only(prog.b)
                  ELSE run_full_interpreter(prog.b)
       IN  stdout' = stdout \o run.stdout /\ pc' = run.pc
    /\ UNCHANGED <<prog, tokens, nodes, root, machineVars, result, error, steps, rule, machine, first>>

(* "if result is not None: print(header); print(result)" on the value      *)
(* evaluate returned *)
PrintResult ==
    /\ pc = "returned"
    /\ stdout' = IF result = NoneV THEN stdout
                 ELSE stdout \o <<OutputHeader, ValueStr(result, closures, tuples)>>
    /\ pc' = "printed"
    /\ UNCHANGED <<prog, tokens, nodes, root, machineVars, result, error, steps, rule, machine, first>>

(* LexicalAnalyzer(source).get_tokens() *)
Lex ==
    /\ pc = "text"
    /\ LET s == get_tokens(LexicalAnalyzer(SourceOf(prog)))
       IN  /\ tokens' = s.tokens
           /\ stdout' = stdout \o s.stdout
           /\ error' = s.err
           /\ pc' = IF s.err # "" THEN "raised" ELSE "lexed"
    /\ UNCHANGED <<prog, nodes, root, machineVars, result, steps, rule, machine, first>>

(* parser = Parser(tokens); parser.E(); the AST is the top of token_stack. *)
(* A call of E that does not return leaves the program at "hung".          *)
Parse ==
    /\ pc = "lexed"
    /\ LET p == E(Parser(tokens))
       IN  /\ nodes' = p.h
           /\ root' = IF p.token_stack = <<>> THEN 0 ELSE Top(p.token_stack)
           /\ error' = IF p.err = "nontermination" THEN "" ELSE p.err
           /\ pc' = IF p.err = "nontermination" THEN "hung"
                    ELSE IF p.err # "" THEN "raised" ELSE "parsed"
    /\ UNCHANGED <<prog, tokens, machineVars, result, stdout, steps, rule, machine, first>>

(* Standardizer(ast).standardize() *)
Standardize ==
    /\ pc = "parsed"
    /\ LET r == standardize(nodes, root)
       IN  nodes' = r.h /\ root' = r.id
    /\ pc' = "standardized"
    /\ UNCHANGED <<prog, tokens, machineVars, result, error, stdout, steps, rule, machine, first>>

(* CSEMachine(st): __init__ and initiate; an exception leaves no machine *)
BuildMachine ==
    LET g == setup_control_structures(nodes, root)
    IN  /\ nodes' = g.nodes
        /\ closures' = g.closures
        /\ control_structures' = g.control_structures
        /\ last_cs_id' = g.last_cs_id
        /\ envs' = (0 :> setup_builtin_functions)
        /\ env_stack' = <<0>>
        /\ last_env_id' = 0
        /\ tuples' = <<>>
        /\ IF g.err # ""
           THEN /\ control_stack' = <<>>
                /\ value_stack' = <<>>
                /\ pc' = "raised"
           ELSE /\ control_stack' = <<EnvV(0)>> \o g.control_structures[0]
                /\ value_stack' = <<EnvV(0)>>
                /\ pc' = "running"
        /\ error' = g.err
        /\ result' = NoneV
        /\ steps' = 0
        /\ rule' = -1
        /\ UNCHANGED <<prog, tokens, root, stdout>>

(* the first machine is built from the standardized tree *)
Construct ==
    /\ pc = "standardized"
    /\ BuildMachine
    /\ machine' = 1
    /\ UNCHANGED first

(* once the first machine has ended, a second one is built from the same   *)
(* tree object                                                             *)
ConstructAgain ==
    /\ pc \in {"returned", "raised"}
    /\ machine = 1
    /\ BuildMachine
    /\ machine' = 2
    /\ first' = Outcome

(* the machine as the rules see it *)
M == [env_stack |-> env_stack, control_stack |-> control_stack,
      value_stack |-> value_stack, closures |-> closures, tuples |-> tuples,
      envs |-> envs, last_env_id |-> last_env_id, error |-> ""]

(* one pass of "while self.control_stack: self.apply_rule()" that selects rule k *)
Fires(k) ==
    /\ pc = "running"
    /\ control_stack # <<>>
    /\ steps < MaxSteps
    /\ RuleNo(M) = k

(* the state apply_rule leaves; an exception ends evaluate *)
Commit(k, r) ==
    /\ env_stack' = r.env_stack
    /\ control_stack' = r.control_stack
    /\ value_stack' = r.value_stack
    /\ closures' = r.closures
    /\ tuples' = r.tuples
    /\ envs' = r.envs
    /\ last_env_id' = r.last_env_id
    /\ error' = r.error
    /\ pc' = IF r.error # "" THEN "raised" ELSE "running"
    /\ steps' = steps + 1
    /\ rule' = k
    /\ UNCHANGED <<prog, tokens, nodes, root, control_structures, last_cs_id, result, stdout, machine, first>>

Rule1 == Fires(1) /\ Commit(1, Rule1f(M))

Rule2 == Fires(2) /\ Commit(2, Rule2f(M))

Rule3 == Fires(3) /\ Commit(3, Rule3f(M))

Rule4 == Fires(4) /\ Commit(4, Rule4f(M, control_structures))

Rule5 == Fires(5) /\ Commit(5, Rule5f(M))

Rule6 == Fires(6) /\ Commit(6, Rule6f(M))

Rule7 == Fires(7) /\ Commit(7, Rule7f(M))

Rule8 == Fires(8) /\ Commit(8, Rule8f(M, control_structures))

Rule9 == Fires(9) /\ Commit(9, Rule9f(M))

Rule10 == Fires(10) /\ Commit(10, Rule10f(M))

Rule12 == Fires(12) /\ Commit(12, Rule12f(M))

Rule13 == Fires(13) /\ Commit(13, Rule13f(M))

NoRule == Fires(0) /\ Commit(0, NoRulef(M))

(* evaluate with "if self.control_stack" for "while self.control_stack": *)
(* it stops applying rules while items remain on C                          *)
FinishEarly ==
    /\ pc = "running"
    /\ steps >= 1
    /\ IF Len(value_stack) # 1
       THEN /\ pc' = "raised"
            /\ error' = "ValueError"
            /\ UNCHANGED <<value_stack, result>>
       ELSE /\ pc' = "returned"
            /\ result' = Top(value_stack)
            /\ value_stack' = Pop(value_stack)
            /\ error' = error
    /\ UNCHANGED <<prog, tokens, nodes, root, env_stack, control_stack, control_structures,
                   closures, tuples, envs, last_env_id, last_cs_id, stdout, steps, rule,
                   machine, first>>

(* the end of evaluate: the loop has emptied C *)
Finish ==
    /\ pc = "running"
    /\ control_stack = <<>>
    /\ IF Len(value_stack) # 1
       THEN /\ pc' = "raised"
            /\ error' = "ValueError"
            /\ UNCHANGED <<value_stack, result>>
       ELSE /\ pc' = "returned"
            /\ result' = Top(value_stack)
            /\ value_stack' = Pop(value_stack)
            /\ error' = error
    /\ UNCHANGED <<prog, tokens, nodes, root, env_stack, control_stack, control_structures,
                   closures, tuples, envs, last_env_id, last_cs_id, stdout, steps, rule,
                   machine, first>>

Next ==
    \/ main
    \/ Lex
    \/ Parse
    \/ Standardize
    \/ Construct
    \/ ConstructAgain
    \/ Rule1
    \/ Rule2
    \/ Rule3
    \/ Rule4
    \/ Rule5
    \/ Rule6
    \/ Rule7
    \/ Rule8
    \/ Rule9
    \/ Rule10
    \/ Rule12
    \/ Rule13
    \/ NoRule
    \/ Finish
    \/ PrintResult

Spec == Init /\ [][Next]_vars

(***************************************************************************)
(* Properties of the rec/closure/delta/environment behaviour               *)
(***************************************************************************)
Named(a) == [f |-> "", a |-> a, b |-> ""]

Ended == pc \in {"returned", "raised"}

(* evaluate returned the single value v, leaving C and V empty *)
Returns(v) == pc = "returned" /\ result = v /\ control_stack = <<>> /\ value_stack = <<>>

(* C1: evaluating `let rec f n = n eq 0 -> 1 | n * f (n-1) in f k` ends    *)
(* with C empty and the single value k! (120 for k = 5, 1 for k = 0).      *)
C1_RecFactorial ==
    /\ (prog = Named("fact 5") /\ Ended) => Returns(IntV(120))
    /\ (prog = Named("fact 0") /\ Ended) => Returns(IntV(1))

(* C2: a closure keeps the environment it captured: the partial            *)
(* applications a = add 1 and b = add 2 of add x y = x + y stay distinct,  *)
(* so a 10 yields 11 and b 10 yields 12.                                   *)
C2_ClosureKeepsEnv ==
    /\ (prog = Named("add a") /\ Ended) => Returns(IntV(11))
    /\ (prog = Named("add b") /\ Ended) => Returns(IntV(12))

(* the closure objects that are items of some delta *)
DeltaClosureRefs ==
    UNION {{control_structures[d][j].ref :
                j \in {i \in 1..Len(control_structures[d]) :
                            IsObj(control_structures[d][i], "Closure")}} :
            d \in DOMAIN control_structures}

(* C3: once the flattener has finished, every step leaves every delta with *)
(* the same items in the same order and every closure item stored in a     *)
(* delta with the same cs_id, params, type and env.                        *)
C3_DeltasImmutable ==
    [][pc = "running" =>
        /\ control_structures' = control_structures
        /\ \A r \in DeltaClosureRefs : closures'[r] = closures[r]]_vars

(* the value as lookup's caller sees it: a tuple with its elements *)
Seen(v, tu) == IF IsObj(v, "Tuple") THEN [k |-> "Tuple", values |-> tu[v.ref]] ELSE v

(* C4: for every environment e and every name x bound in e, the value      *)
(* found for x in e (for a tuple, its length and elements) is the same     *)
(* after every step.                                                       *)
C4_EnvironmentsNeverMutated ==
    [][pc = "running" =>
        \A e \in DOMAIN envs : \A x \in DOMAIN envs[e].bindings :
            /\ e \in DOMAIN envs'
            /\ x \in DOMAIN envs'[e].bindings
            /\ Seen(envs'[e].bindings[x], tuples') = Seen(envs[e].bindings[x], tuples)]_vars

(* C5: `Conc "a" "b"` and `let S = "abc" in Conc (Stem S) (Stern S)`, both *)
(* standardized to gamma(gamma(Conc, s), t), end with the single value s+t *)
C5_CurriedConc ==
    /\ (prog = Named("conc") /\ Ended) => Returns(StrV(<<"a", "b">>))
    /\ (prog = Named("conc seed") /\ Ended) => Returns(StrV(<<"a", "b", "c">>))

(* the argument expressions that are literals, and the integers among them *)
LiteralArgs == {"3", "0", "true", "false", "'ab'", "''", "nil", "dummy", "(1,2)", "fn x.x"}

(* C6: `Isinteger v` is true exactly when v is an integer value; for true  *)
(* and false it is false.                                                  *)
C6_IsintegerNotBoolean ==
    (prog.f = "Isinteger" /\ prog.a \in LiteralArgs /\ Ended)
        => Returns(BoolV(prog.a \in {"3", "0"}))

(* C7: `Null v` is true exactly when v is an empty tuple or the value of   *)
(* the literal nil, and false for every other value.                       *)
C7_NullOfNil ==
    (prog.f = "Null" /\ pc = "returned") => result = BoolV(prog.a = "nil")

(* C8: `Isstring v` is true exactly when v comes from a string literal or  *)
(* a string built-in; it is false for the values of nil and dummy.         *)
C8_IsstringNotNilDummy ==
    (prog.f = "Isstring" /\ pc = "returned")
        => result = BoolV(prog.a \in {"'ab'", "''", "ItoS 3"})

(* a step that applies the built-in Print *)
AppliesPrint == Fires(3) /\ Top(value_stack) = BuiltinV("Print")

(* C9: every application of Print appends one entry to the output, after   *)
(* the entries of the earlier applications, and pushes the printed value.  *)
C9_PrintAppendsOutput ==
    [][(AppliesPrint /\ error' = "") =>
        /\ Len(stdout') = Len(stdout) + 1
        /\ SubSeq(stdout', 1, Len(stdout)) = stdout
        /\ Top(value_stack') = value_stack[Len(value_stack) - 1]]_vars

(* the ids of the environment markers on V, bottom first *)
Markers(vs) ==
    LET ms == SelectSeq(vs, LAMBDA v : IsObj(v, "Environment"))
    IN  [i \in 1..Len(ms) |-> ms[i].id]

Range(s) == {s[i] : i \in 1..Len(s)}

(* C10: while rules remain to be applied, the top of E is the innermost    *)
(* environment marker on V; and no rule but Rule 5 removes a marker from V *)
C10_TopOfEIsInnermostMarker ==
    (pc = "running" /\ control_stack # <<>>) =>
        /\ Markers(value_stack) # <<>>
        /\ Top(env_stack) = Top(Markers(value_stack))

C10_OnlyRule5RemovesMarker ==
    [][(pc = "running" /\ rule' # 5) =>
        Range(Markers(value_stack)) \subseteq Range(Markers(value_stack'))]_vars

C12_Determinism ==
    (machine = 2 /\ Ended) => Outcome = first

(* the kinds of runtime value: integer, boolean, string (nil and dummy are *)
(* pushed as strings), tuple, closure, built-in function, environment      *)
(* marker                                                                  *)
ValueKinds == {"int", "bool", "str", "Tuple", "Closure", "BuiltinFunction", "Environment"}

(* C13: every item on the value stack, in every reachable state, is one of *)
(* the kinds of runtime value; no operator or built-in pushes another kind *)
C13_ValueKinds ==
    \A i \in 1..Len(value_stack) : value_stack[i].k \in ValueKinds

(* a tuple value as Shown gives it *)
Tup(values) == [k |-> "Tuple", values |-> values]

(* C14: the tuple that tau_n pushes for a tau node with children E1 ... En *)
(* has the value of Ei as its i-th element: (3, 1, 2) evaluates to the     *)
(* tuple 3, 1, 2 and (1 + 1, "a", (3, 4), 5 - 2) to 2, a, (3, 4), 3.       *)
C14_TupleOrder ==
    /\ (prog = Named("tuple 3") /\ Ended) =>
            /\ pc = "returned"
            /\ Shown(result, closures, tuples) = Tup(<<IntV(3), IntV(1), IntV(2)>>)
    /\ (prog = Named("tuple mixed") /\ Ended) =>
            /\ pc = "returned"
            /\ Shown(result, closures, tuples)
                 = Tup(<<IntV(2), StrV(<<"a">>), Tup(<<IntV(3), IntV(4)>>), IntV(3)>>)

(* the machine has returned the 4-tuple of the mixed program *)
C14_Witness ==
    /\ prog = Named("tuple mixed")
    /\ pc = "returned"
    /\ IsObj(result, "Tuple")
    /\ Len(tuples[result.ref]) = 4

(* the number a numeric operand name stands for *)
NumberOf(a) == CASE a = "7" -> 7 [] a = "2" -> 2 [] a = "3" -> 3

(* what `a op b` may evaluate to when a is the first operand and b the     *)
(* second; for `/` the quotient of a by b, whole or exact                  *)
Oriented(op, a, b) ==
    CASE op = "-" -> {IntV(a - b)}
      [] op = "/" -> {IntV(a \div b), Frac(a, b)}
      [] op = "**" -> {IntV(a ^ b)}
      [] op = "gr" -> {BoolV(a > b)}
      [] op = "ge" -> {BoolV(a >= b)}
      [] op = "ls" -> {BoolV(a < b)}
      [] op = "le" -> {BoolV(a <= b)}

(* C15: for `a op b` with op one of - / ** gr ge ls le, the machine        *)
(* computes op with the value of a as first operand and the value of b as  *)
(* second; 10 - 3 evaluates to 7 and 2 ** 3 to 8.                          *)
C15_OperandOrientation ==
    /\ (prog.f \in OrderedOps /\ prog.a \in NumberArgs /\ prog.b \in NumberArgs /\ Ended) =>
            /\ pc = "returned"
            /\ result \in Oriented(prog.f, NumberOf(prog.a), NumberOf(prog.b))
    /\ (prog = Named("10 - 3") /\ Ended) => Returns(IntV(7))
    /\ (prog = [f |-> "**", a |-> "2", b |-> "3"] /\ Ended) => Returns(IntV(8))

(* 7 - 2 has returned 5 *)
C15_Witness == prog = [f |-> "-", a |-> "7", b |-> "2"] /\ pc = "returned" /\ result = IntV(5)

(***************************************************************************)
(* C16: operator precedence and associativity in the parser.  '*' and '/'  *)
(* bind tighter than '+' and '-', '**' binds tighter than '*' and is       *)
(* right-associative, a leading '-' applies to the first term only: the    *)
(* tree of 1+2*3 has root '+' over 1 and '*', that of (1+2)*3 has root '*' *)
(* over '+' and 3, that of 2**3**2 is 2 ** (3 ** 2), that of -1+2 is       *)
(* (neg 1) + 2; and 1+2*3, 2**3**2, -1+2 evaluate to 7, 512 and 1.         *)
(***************************************************************************)
ValueAt(n) == IF n = 0 THEN KW("None") ELSE nodes[n].value

Child(n, i) == get_all_children(nodes, n)[i]

Parsed(a) == prog = Source(a) /\ pc = "parsed"

C16_PrecedenceAndAssociativity ==
    /\ Parsed("1+2*3") =>
           /\ ValueAt(root) = KW("+")
           /\ ValueAt(Child(root, 1)) = INT(<<"1">>)
           /\ ValueAt(Child(root, 2)) = KW("*")
    /\ Parsed("(1+2)*3") =>
           /\ ValueAt(root) = KW("*")
           /\ ValueAt(Child(root, 1)) = KW("+")
           /\ ValueAt(Child(root, 2)) = INT(<<"3">>)
    /\ Parsed("2**3**2") =>
           /\ ValueAt(root) = KW("**")
           /\ ValueAt(Child(root, 1)) = INT(<<"2">>)
           /\ ValueAt(Child(root, 2)) = KW("**")
    /\ Parsed("2*3**2") =>
           /\ ValueAt(root) = KW("*")
           /\ ValueAt(Child(root, 2)) = KW("**")
    /\ Parsed("-1+2") =>
           /\ ValueAt(root) = KW("+")
           /\ ValueAt(Child(root, 1)) = KW("neg")
           /\ ValueAt(Child(root, 2)) = INT(<<"2">>)
    /\ Parsed("-2*3") =>
           /\ ValueAt(root) = KW("neg")
           /\ ValueAt(Child(root, 1)) = KW("*")
    /\ (prog.f = "source" /\ machine = 1 /\ Ended) =>
           /\ pc = "returned"
           /\ prog.a = "1+2*3" => result = IntV(7)
           /\ prog.a = "2*3+1" => result = IntV(7)
           /\ prog.a = "(1+2)*3" => result = IntV(9)
           /\ prog.a = "2**3**2" => result = IntV(512)
           /\ prog.a = "2*3**2" => result = IntV(18)
           /\ prog.a = "-1+2" => result = IntV(1)
           /\ prog.a = "-2*3" => result = IntV(-6)
           /\ prog.a = "7-2-1" => result = IntV(4)

C16_Witness == prog = Source("2**3**2") /\ pc = "returned" /\ result = IntV(512)

(***************************************************************************)
(* C17: ST well-formedness.  The tree returned by Standardizer.standardize *)
(* has no node tagged let, where, within, rec, and, function_form or @;    *)
(* every gamma node and every lambda node has exactly two children; every  *)
(* Y node is the first child of a gamma whose second child is a lambda.    *)
(***************************************************************************)
RECURSIVE TreeNodes(_, _)
TreeNodes(h, n) ==
    IF n = 0 THEN {} ELSE {n} \cup TreeNodes(h, h[n].left) \cup TreeNodes(h, h[n].right)

SurfaceTags == {"let", "where", "within", "rec", "and", "function_form", "@"}

Tagged(h, n, w) == IsKw(h[n].value, w)

YUnderGamma(h, tree, n) ==
    \E g \in tree :
        /\ Tagged(h, g, "gamma")
        /\ h[g].left = n
        /\ h[n].right # 0
        /\ Tagged(h, h[n].right, "lambda")

WellFormedST(h, r) ==
    LET tree == TreeNodes(h, r)
    IN  \A n \in tree :
            /\ ~(h[n].value.t = "KW" /\ h[n].value.w \in SurfaceTags)
            /\ Tagged(h, n, "gamma") => Len(get_all_children(h, n)) = 2
            /\ Tagged(h, n, "lambda") => Len(get_all_children(h, n)) = 2
            /\ Tagged(h, n, "Y") => YUnderGamma(h, tree, n)

C17_StandardizedTreeWellFormed == pc = "standardized" => WellFormedST(nodes, root)

C17_Witness ==
    /\ prog = Named("rec and")
    /\ pc = "standardized"
    /\ \E n \in TreeNodes(nodes, root) : Tagged(nodes, n, "Y")
    /\ \E n \in TreeNodes(nodes, root) : Tagged(nodes, n, "tau")

(***************************************************************************)
(* C18: result printing format.  The final result is printed with integers *)
(* in decimal, booleans as the words true and false, strings raw without   *)
(* quotes, nil and dummy as those words, and tuples as (v1, v2, ...) with  *)
(* every element printed by the same rules.                                *)
(***************************************************************************)
RECURSIVE SpecText(_)
SpecText(v) ==
    IF v.k = "int" THEN (IF v.i < 0 THEN <<"-">> \o NatToStr(-v.i) ELSE NatToStr(v.i))
    ELSE IF v.k = "bool" THEN (IF v.b THEN TRUE_STR ELSE FALSE_STR)
    ELSE IF v.k = "str" THEN v.s
    ELSE <<"(">> \o JoinPieces([i \in 1..Len(v.values) |-> SpecText(v.values[i])], <<",", " ">>)
              \o <<")">>

RECURSIVE SpecPrintable(_)
SpecPrintable(v) ==
    \/ v.k \in {"int", "bool", "str"}
    \/ v.k = "Tuple" /\ \A i \in 1..Len(v.values) : SpecPrintable(v.values[i])

C18_ResultPrintingFormat ==
    (pc = "printed" /\ SpecPrintable(Shown(result, closures, tuples))) =>
        stdout = <<OutputHeader, SpecText(Shown(result, closures, tuples))>>


(***************************************************************************)
(* C19: run with neither -ast nor -st on an existing file holding a valid  *)
(* program, the driver runs lexer, parser, standardizer and CSE machine in *)
(* that order and ends by printing `Output of the above program is:` and   *)
(* the program's result, without reporting an error.                       *)
(***************************************************************************)
C19_DriverPrintsTheResult ==
    (prog = Cli("", "1+2*3") /\ pc # "cli") =>
        /\ pc # "exit 1"
        /\ stdout = <<OutputHeader, <<"7">>>>

(***************************************************************************)
(* C20: eq and ne compare two values of the same kind by structural        *)
(* equality.  Two integers, two booleans, two strings or two tuples are eq *)
(* exactly when their contents are equal, whether or not they are the same *)
(* object, and ne gives the negation.                                      *)
(***************************************************************************)
KindOfArg(a) ==
    IF a \in {"3", "0"} THEN "int"
    ELSE IF a \in {"true", "false"} THEN "bool"
    ELSE IF a \in {"'ab'", "''"} THEN "str"
    ELSE "Tuple"

(* the operand expressions of the model denote equal values exactly when   *)
(* they are the same expression                                            *)
C20_StructuralEquality ==
    /\ (/\ prog.f \in EqualityOps
        /\ KindOfArg(prog.a) = KindOfArg(prog.b)
        /\ machine = 1
        /\ Ended) => Returns(BoolV((prog.a = prog.b) <=> (prog.f = "eq")))
    /\ (prog = Named("same tuple eq") /\ machine = 1 /\ Ended) => Returns(BoolV(TRUE))
    /\ (prog = Named("same tuple ne") /\ machine = 1 /\ Ended) => Returns(BoolV(FALSE))

(***************************************************************************)
(* C21: aug appends its right operand to its left operand.  With left nil  *)
(* and right any value v (integer, boolean, string, tuple or function) the *)
(* result is the one-element tuple (v); with left a tuple of length n the  *)
(* result has length n + 1, the elements of left first and v last.         *)
(***************************************************************************)
AugRights == {"3", "true", "'ab'", "(1,2)", "fn x.x"}

(* the value an operand expression of the aug programs denotes *)
IsValueOfArg(v, a) ==
    CASE a = "3" -> v = IntV(3)
      [] a = "true" -> v = BoolV(TRUE)
      [] a = "'ab'" -> v = StrV(<<"a", "b">>)
      [] a = "(1,2)" -> v = Tup(<<IntV(1), IntV(2)>>)
      [] a = "fn x.x" -> v.k = "Closure" /\ v.type = "lambda"

C21_AugAppends ==
    (prog.f = "aug" /\ prog.a \in {"nil", "(1,2)"} /\ prog.b \in AugRights /\ machine = 1 /\ Ended) =>
        LET r == Shown(result, closures, tuples)
            n == IF prog.a = "nil" THEN 0 ELSE 2
        IN  /\ pc = "returned"
            /\ r.k = "Tuple"
            /\ Len(r.values) = n + 1
            /\ n = 2 => (r.values[1] = IntV(1) /\ r.values[2] = IntV(2))
            /\ IsValueOfArg(r.values[n + 1], prog.b)

(***************************************************************************)
(* C22: every maximal run of characters that starts with a letter or an    *)
(* underscore, continues with letters, digits or underscores and is not a  *)
(* keyword is scanned as one IDENTIFIER token whose lexeme is that run.    *)
(* Checked on the texts that are such runs separated by single spaces:     *)
(* get_tokens returns one IDENTIFIER token per run, in order, then EOF.    *)
(***************************************************************************)
RECURSIVE Runs(_, _)
Runs(chars, run) ==
    IF chars = <<>> THEN (IF run = <<>> THEN <<>> ELSE <<run>>)
    ELSE IF Head(chars) = " "
    THEN (IF run = <<>> THEN <<>> ELSE <<run>>) \o Runs(Tail(chars), <<>>)
    ELSE Runs(Tail(chars), Append(run, Head(chars)))

IsIdentifierRun(run) ==
    /\ run[1] \in Letters \cup {"_"}
    /\ \A i \in 1..Len(run) : run[i] \in Letters \cup {"_"} \/ isdigit(run[i])
    /\ ~IsKeyword(run)

IdentifierText(p) ==
    /\ p.f = "text"
    /\ Runs(SourceOf(p), <<>>) # <<>>
    /\ \A i \in 1..Len(Runs(SourceOf(p), <<>>)) : IsIdentifierRun(Runs(SourceOf(p), <<>>)[i])

C22_IdentifierTokens ==
    (IdentifierText(prog) /\ pc # "text") =>
        LET runs == Runs(SourceOf(prog), <<>>)
        IN  tokens = [i \in 1..Len(runs) |-> Token("IDENTIFIER", runs[i])]
                     \o <<Token("EOF", <<"E", "O", "F">>)>>

(***************************************************************************)
(* C23: on every token sequence ending in EOF that is not a valid program  *)
(* the parser stops after finitely many steps and raises SyntaxError: once *)
(* the parser has been called on such a text, the call has ended with      *)
(* SyntaxError.                                                            *)
(***************************************************************************)
InvalidTexts ==
    {"let x = in y", "(1 + 2", "let x = 1 in", "let x 1", "let x", "let (x = 1 in x",
     "fn (x . x", "fn ( . 1", "fn x", "fn x = 3", "fn x 5 . x", "let f x in 3",
     "let f x 5 = 1 in f", "let in 5", "fn . 5", "1 )"}

C23_InvalidProgramRaisesSyntaxError ==
    (prog.f = "text" /\ prog.a \in InvalidTexts /\ pc \notin {"text", "lexed"}) =>
        pc = "raised" /\ error = "SyntaxError"

(***************************************************************************)
(* C24: for every Y node of the standardized tree the flattener emits the  *)
(* control item Y_star, never the raw tag Y: in the control structures of  *)
(* a machine no item is the word Y, and every literal word found there is  *)
(* one that Rule 1 stacks.                                                 *)
(***************************************************************************)
DeltaItems ==
    UNION {{control_structures[d][j] : j \in 1..Len(control_structures[d])} :
                d \in DOMAIN control_structures}

(* the words of a delta that are not leaves of the tree: the operators of  *)
(* Rules 6 and 7, gamma and beta                                           *)
OperatorWords == BinaryOps \cup {"not", "neg", "gamma", "beta"}

C24_YEmittedAsYStar ==
    pc = "running" =>
        \A item \in DeltaItems :
            (IsCtlStr(item) /\ item.t = "KW" /\ item.w \notin OperatorWords)
                => item.w \in {"true", "false", "nil", "dummy", "Y_star"}

(***************************************************************************)
(* C25: for a '->' node with condition B and arms E1, E2 the flattener     *)
(* emits delta_<t>_t, delta_<f>_f, beta and then the flattened B, delta t  *)
(* holding E1 and delta f holding E2; Rule 8, fired with the boolean value *)
(* of B on V, removes beta, the boolean and both references and appends    *)
(* to C the body of one arm: delta t's if the value is true, delta f's if  *)
(* it is false.  The flattening is checked for conditions and arms that    *)
(* hold neither a lambda nor a '->' of their own, whose items are their    *)
(* nodes in preorder.                                                      *)
(***************************************************************************)
RECURSIVE Simple(_, _), SimpleSeq(_, _), Preorder(_, _), PreorderSeq(_, _)
Simple(h, n) ==
    /\ ~IsKw(h[n].value, "lambda")
    /\ ~IsKw(h[n].value, "->")
    /\ SimpleSeq(h, h[n].left)

SimpleSeq(h, c) == c = 0 \/ (Simple(h, c) /\ SimpleSeq(h, h[c].right))

Preorder(h, n) ==
    <<IF IsKw(h[n].value, "tau") THEN TauItem(NumChildren(h, h[n].left)) ELSE h[n].value>>
        \o PreorderSeq(h, h[n].left)

PreorderSeq(h, c) == IF c = 0 THEN <<>> ELSE Preorder(h, c) \o PreorderSeq(h, h[c].right)

(* the items of delta from position j on begin with the sequence items *)
ItemsAt(delta, j, items) ==
    /\ j + Len(items) - 1 <= Len(delta)
    /\ SubSeq(delta, j, j + Len(items) - 1) = items

(* the '->' node n of the tree h is flattened in the table cstab *)
CondFlattened(h, n, cstab) ==
    LET B == h[n].left
        E1 == h[B].right
        E2 == h[E1].right
    IN  \E d \in DOMAIN cstab : \E j \in 1..Len(cstab[d]) : \E t, f \in DOMAIN cstab :
            /\ ItemsAt(cstab[d], j, <<DeltaItem(t, "t"), DeltaItem(f, "f"), KW("beta")>>
                                    \o Preorder(h, B))
            /\ cstab[t] = Preorder(h, E1)
            /\ cstab[f] = Preorder(h, E2)

C25_Conditional ==
    [][/\ (pc = "standardized" /\ machine' = 1) =>
              \A n \in TreeNodes(nodes, root) :
                  (/\ IsKw(nodes[n].value, "->")
                   /\ Simple(nodes, nodes[n].left)
                   /\ Simple(nodes, nodes[nodes[n].left].right)
                   /\ Simple(nodes, nodes[nodes[nodes[n].left].right].right))
                      => CondFlattened(nodes, n, control_structures')
       /\ (/\ pc = "running"
           /\ steps' = steps + 1
           /\ control_stack # <<>>
           /\ Top(control_stack) = KW("beta")
           /\ value_stack # <<>>
           /\ Top(value_stack) \in {BoolV(TRUE), BoolV(FALSE)}) =>
              LET n == Len(control_stack)
              IN  /\ n >= 3
                  /\ control_stack[n - 2].arm = "t"
                  /\ control_stack[n - 1].arm = "f"
                  /\ pc' = "running"
                  /\ value_stack' = SubSeq(value_stack, 1, Len(value_stack) - 1)
                  /\ control_stack' =
                        SubSeq(control_stack, 1, n - 3)
                            \o control_structures[IF Top(value_stack) = BoolV(TRUE)
                                                  THEN control_stack[n - 2].id
                                                  ELSE control_stack[n - 1].id]]_vars

(* Rule 8 has taken the false arm of `false -> Print 1 | Print 2`: the     *)
(* items of Print 2 lie on C                                               *)
C25_Witness ==
    /\ prog = Named("cond false")
    /\ machine = 1
    /\ rule = 8
    /\ pc = "running"
    /\ Len(control_stack) = 4
    /\ Top(control_stack) = INT(<<"2">>)

(***************************************************************************)
(* C26: Rule 4 with a tuple as the argument.  A closure with a single      *)
(* parameter gets the whole tuple bound to that parameter; a closure with  *)
(* n >= 2 parameters and a tuple of length n gets its i-th parameter bound *)
(* to the i-th element, so that `let P (a,b) = a+b in P (3,4)` yields 7;   *)
(* with a tuple of any other length the rule raises an error and creates   *)
(* no environment: E, the environments and last_env_id stay as they were.  *)
(***************************************************************************)
C26_ApplyToTuple ==
    [][(/\ pc = "running"
        /\ machine = 1
        /\ steps' = steps + 1
        /\ Len(value_stack) >= 2
        /\ Top(control_stack) = KW("gamma")
        /\ IsObj(Top(value_stack), "Closure")
        /\ closures[Top(value_stack).ref].type = "lambda"
        /\ IsObj(value_stack[Len(value_stack) - 1], "Tuple")) =>
            LET params == closures[Top(value_stack).ref].params
                t == value_stack[Len(value_stack) - 1]
                id == last_env_id + 1
            IN  IF Len(params) = 1
                THEN /\ pc' = "running"
                     /\ Top(env_stack') = id
                     /\ envs'[id].bindings[ParamName(params[1])] = t
                ELSE IF Len(params) = Len(tuples[t.ref])
                THEN /\ pc' = "running"
                     /\ Top(env_stack') = id
                     /\ \A i \in 1..Len(params) :
                            envs'[id].bindings[ParamName(params[i])] = tuples[t.ref][i]
                ELSE /\ pc' = "raised"
                     /\ env_stack' = env_stack
                     /\ envs' = envs
                     /\ last_env_id' = last_env_id]_vars
       /\ [][(prog = Named("pair (3,4)") /\ machine = 1 /\ pc' \in {"returned", "raised"})
                => (pc' = "returned" /\ result' = IntV(7))]_vars

(***************************************************************************)
(* C27: Rule 10.  With gamma on top of C, a tuple T of length n on top of  *)
(* V and an integer i below it, the rule pops gamma, T and i and pushes    *)
(* the i-th element of T, counted from 1, when 1 <= i <= n; when i < 1 or  *)
(* i > n it raises an index error and pushes nothing.                      *)
(***************************************************************************)
C27_TupleIndexing ==
    [][(/\ pc = "running"
        /\ steps' = steps + 1
        /\ Len(value_stack) >= 2
        /\ control_stack # <<>>
        /\ Top(control_stack) = KW("gamma")
        /\ IsObj(Top(value_stack), "Tuple")
        /\ value_stack[Len(value_stack) - 1].k = "int") =>
            LET T == tuples[Top(value_stack).ref]
                i == value_stack[Len(value_stack) - 1].i
                below == SubSeq(value_stack, 1, Len(value_stack) - 2)
            IN  /\ control_stack' = SubSeq(control_stack, 1, Len(control_stack) - 1)
                /\ IF 1 <= i /\ i <= Len(T)
                   THEN pc' = "running" /\ value_stack' = Append(below, T[i])
                   ELSE pc' = "raised" /\ error' = "IndexError" /\ value_stack' = below]_vars

(* `((1,2), 5, 7) 4` has ended in Rule 10 with an index error *)
C27_Witness ==
    /\ prog = Named("index 4")
    /\ machine = 1
    /\ rule = 10
    /\ pc = "raised"
    /\ error = "IndexError"
    /\ value_stack = <<EnvV(0)>>

(***************************************************************************)
(* C28: Rule 12 replaces the closure below Y_star by an eta closure with   *)
(* the same delta id, parameter list and captured environment; Rule 13,    *)
(* fired on gamma with an eta closure on top of V, leaves that eta where   *)
(* it is, pushes above it a lambda closure with the same three fields and  *)
(* leaves C with one more gamma than before.                               *)
(***************************************************************************)
SameFields(c, d) == c.cs_id = d.cs_id /\ c.params = d.params /\ c.env = d.env

C28_YEtaUnfolding ==
    [][(/\ pc = "running"
        /\ steps' = steps + 1
        /\ control_stack # <<>>
        /\ Top(control_stack) = KW("gamma")
        /\ value_stack # <<>>) =>
            LET n == Len(value_stack)
            IN  /\ (/\ IsStrEq(Top(value_stack), Y_STAR)
                    /\ n >= 2
                    /\ IsObj(value_stack[n - 1], "Closure")) =>
                        /\ pc' = "running"
                        /\ control_stack' = SubSeq(control_stack, 1, Len(control_stack) - 1)
                        /\ Len(value_stack') = n - 1
                        /\ SubSeq(value_stack', 1, n - 2) = SubSeq(value_stack, 1, n - 2)
                        /\ IsObj(Top(value_stack'), "Closure")
                        /\ closures'[Top(value_stack').ref].type = "eta"
                        /\ SameFields(closures'[Top(value_stack').ref],
                                      closures[value_stack[n - 1].ref])
                /\ (/\ IsObj(Top(value_stack), "Closure")
                    /\ closures[Top(value_stack).ref].type = "eta") =>
                        /\ pc' = "running"
                        /\ control_stack' = Append(control_stack, KW("gamma"))
                        /\ Len(value_stack') = n + 1
                        /\ SubSeq(value_stack', 1, n) = value_stack
                        /\ closures'[Top(value_stack).ref] = closures[Top(value_stack).ref]
                        /\ IsObj(Top(value_stack'), "Closure")
                        /\ closures'[Top(value_stack').ref].type = "lambda"
                        /\ SameFields(closures'[Top(value_stack').ref],
                                      closures[Top(value_stack).ref])]_vars

(* Rule 13 has unfolded the eta closure of the Y_star program: the eta and *)
(* its lambda copy lie on V, two gammas on C                               *)
C28_Witness ==
    /\ prog = Named("ystar 2")
    /\ machine = 1
    /\ rule = 13
    /\ pc = "running"
    /\ Len(value_stack) >= 2
    /\ IsObj(Top(value_stack), "Closure")
    /\ closures[Top(value_stack).ref].type = "lambda"
    /\ IsObj(value_stack[Len(value_stack) - 1], "Closure")
    /\ closures[value_stack[Len(value_stack) - 1].ref].type = "eta"
    /\ closures[Top(value_stack).ref].env # NoEnv
    /\ Top(control_stack) = KW("gamma")
    /\ control_stack[Len(control_stack) - 1] = KW("gamma")

(***************************************************************************)
(* C29: Rule 1 on <ID:x> pushes the value bound to x in the nearest        *)
(* environment on the parent chain that starts at the top of E, so that an *)
(* inner binding shadows an outer one; the chain of every environment ends *)
(* in the primitive environment, whose names are therefore visible from    *)
(* everywhere; if no environment of the chain binds x, an unbound-name     *)
(* error is raised and neither C nor V is changed.                         *)
(***************************************************************************)
RECURSIVE Chain(_, _)
Chain(es, e) == IF es[e].parent = NoParent THEN <<e>> ELSE <<e>> \o Chain(es, es[e].parent)

C29_IdentifierLookup ==
    [][(/\ pc = "running"
        /\ steps' = steps + 1
        /\ control_stack # <<>>
        /\ IsCtlStr(Top(control_stack))
        /\ Top(control_stack).t = "ID"
        /\ env_stack # <<>>) =>
            LET x == Top(control_stack).name
                chain == Chain(envs, Top(env_stack))
                binders == {k \in 1..Len(chain) : x \in DOMAIN envs[chain[k]].bindings}
                nearest == chain[CHOOSE k \in binders : \A j \in binders : k <= j]
            IN  /\ \A e \in DOMAIN envs :
                      /\ Chain(envs, e)[Len(Chain(envs, e))] = 0
                      /\ BuiltinNames \subseteq DOMAIN envs[0].bindings
                /\ IF binders # {}
                   THEN /\ pc' = "running"
                        /\ value_stack' = Append(value_stack, envs[nearest].bindings[x])
                        /\ control_stack' = SubSeq(control_stack, 1, Len(control_stack) - 1)
                   ELSE /\ pc' = "raised"
                        /\ error' = "NameError"
                        /\ value_stack' = value_stack
                        /\ control_stack' = control_stack]_vars

(* `let x = 1 in let x = 2 in x`: Rule 1 has pushed the inner x, looked up *)
(* from the innermost of three environments                                *)
C29_Witness ==
    /\ prog = Named("shadow")
    /\ machine = 1
    /\ rule = 1
    /\ pc = "running"
    /\ Len(env_stack) = 3
    /\ Top(value_stack) = IntV(2)
    /\ "x" \in DOMAIN envs[1].bindings
    /\ envs[1].bindings["x"] = IntV(1)

(***************************************************************************)
(* C30: operator type checking.  + - * / ** and gr ge ls le applied to an  *)
(* operand that is not a number (a boolean, string, tuple, nil, dummy or   *)
(* function), & and or applied to an operand that is not a boolean, not    *)
(* applied to a non-boolean and neg applied to a non-number all raise a    *)
(* type error, and no result is pushed onto V.                             *)
(***************************************************************************)
NumericOps == {"+", "-", "*", "/", "**", "gr", "ge", "ls", "le"}

(* the operand expressions an operator of the program must reject *)
Rejects(op, a) ==
    IF op \in NumericOps \cup {"neg"} THEN a # "3" ELSE a # "true"

C30_OperatorTypeChecking ==
    /\ (/\ prog.f \in NumericOps \cup {"&", "or"}
        /\ prog.a \in MixedArgs
        /\ prog.b \in MixedArgs
        /\ Rejects(prog.f, prog.a) \/ Rejects(prog.f, prog.b)
        /\ machine = 1
        /\ Ended) =>
            pc = "raised" /\ error = "TypeError" /\ value_stack = <<EnvV(0)>>
    /\ (prog.f \in UnaryOps /\ Rejects(prog.f, prog.a) /\ machine = 1 /\ Ended) =>
            pc = "raised" /\ error = "TypeError" /\ value_stack = <<EnvV(0)>>

(***************************************************************************)
(* Frame of Rule 3 on gamma(Print, x)                                      *)
(***************************************************************************)
(* the values of V below its two topmost entries *)
BelowTwo(vs) == SubSeq(vs, 1, Len(vs) - 2)

(* C31: applying Print to one argument x removes from V only the built-in  *)
(* and x and pushes x back; every value that lay below x on V is still     *)
(* there afterwards, unchanged and in the same order.                      *)
C31_PrintKeepsValuesBelow ==
    [][(/\ AppliesPrint
        /\ Len(value_stack) >= 2
        /\ IsPrintArg(value_stack[Len(value_stack) - 1])) =>
        /\ Len(value_stack') = Len(value_stack) - 1
        /\ BelowTwo(value_stack) = SubSeq(value_stack', 1, Len(value_stack') - 1)
        /\ Top(value_stack') = value_stack[Len(value_stack) - 1]]_vars

(***************************************************************************)
(* The flattener and the tree it reads                                     *)
(***************************************************************************)
(* C33: flattening reads the standardized tree without changing it: after  *)
(* setup_control_structures every node of the ST has the same tag, first   *)
(* child and next sibling as before, the three children of every '->'      *)
(* node included.                                                          *)
C33_FlatteningLeavesTreeUnchanged ==
    [][(pc = "standardized" /\ machine' = 1) =>
        \A n \in TreeNodes(nodes, root) : nodes'[n] = nodes[n]]_vars

(***************************************************************************)
(* C32: delta table integrity.  After flattening a standardized tree every *)
(* lambda and every conditional arm has its own delta id, distinct from    *)
(* all others and from 0; every closure's delta id and every delta_<id>_t  *)
(* / delta_<id>_f reference occurring in any delta is a key of the table   *)
(* of control structures; and the delta registered under a closure's id    *)
(* holds the flattening of that lambda's body.                             *)
(*                                                                         *)
(* The flattening of a body is compared by shape: a closure item stands    *)
(* for the lambda at its place and a delta reference for its arm, every    *)
(* other item is the node's own.  The closures are created in the order    *)
(* in which the walk meets the lambdas.                                    *)
(***************************************************************************)
LambdaMark == [t |-> "LAMBDA"]

ArmMark(arm) == [t |-> "ARM", arm |-> arm]

RECURSIVE Skeleton(_, _), SkeletonSeq(_, _)
Skeleton(h, n) ==
    IF IsKw(h[n].value, "lambda") THEN <<LambdaMark>>
    ELSE IF IsKw(h[n].value, "->")
    THEN <<ArmMark("t"), ArmMark("f"), KW("beta")>> \o Skeleton(h, h[n].left)
    ELSE <<IF IsKw(h[n].value, "tau") THEN TauItem(NumChildren(h, h[n].left))
           ELSE h[n].value>> \o SkeletonSeq(h, h[n].left)

SkeletonSeq(h, c) == IF c = 0 THEN <<>> ELSE Skeleton(h, c) \o SkeletonSeq(h, h[c].right)

ShapeOfItem(item) ==
    IF ~IsCtlStr(item) THEN LambdaMark
    ELSE IF item.t = "DELTA" THEN ArmMark(item.arm)
    ELSE item

ShapeOf(delta) == [j \in 1..Len(delta) |-> ShapeOfItem(delta[j])]

(* the lambda nodes in the order of the walk *)
RECURSIVE Lambdas(_, _), LambdasSeq(_, _)
Lambdas(h, n) ==
    IF IsKw(h[n].value, "lambda") THEN <<n>> \o LambdasSeq(h, h[h[n].left].right)
    ELSE LambdasSeq(h, h[n].left)

LambdasSeq(h, c) == IF c = 0 THEN <<>> ELSE Lambdas(h, c) \o LambdasSeq(h, h[c].right)

(* the positions <<d, j>> of the items of the table *)
Positions(cstab) == UNION {{<<d, j>> : j \in 1..Len(cstab[d])} : d \in DOMAIN cstab}

(* the positions that hold a reference to an arm *)
ArmPositions(cstab, arm) ==
    {p \in Positions(cstab) :
        /\ IsCtlStr(cstab[p[1]][p[2]])
        /\ cstab[p[1]][p[2]].t = "DELTA"
        /\ cstab[p[1]][p[2]].arm = arm}

ArmIds(cstab, arm) == {cstab[p[1]][p[2]].id : p \in ArmPositions(cstab, arm)}

ClosureIds(cl) == {cl[i].cs_id : i \in 1..Len(cl)}

TableIntegrity(h, r, cl, cstab) ==
    LET lams == Lambdas(h, r)
        conds == {n \in TreeNodes(h, r) : IsKw(h[n].value, "->")}
        ids == ClosureIds(cl) \cup ArmIds(cstab, "t") \cup ArmIds(cstab, "f")
    IN  /\ Len(cl) = Len(lams)
        /\ Cardinality(ArmPositions(cstab, "t")) = Cardinality(conds)
        /\ Cardinality(ArmPositions(cstab, "f")) = Cardinality(conds)
        /\ Cardinality(ids) = Len(lams) + 2 * Cardinality(conds)
        /\ 0 \notin ids
        /\ ids \subseteq DOMAIN cstab
        /\ \A p \in Positions(cstab) :
               ~IsCtlStr(cstab[p[1]][p[2]]) => cstab[p[1]][p[2]].ref \in 1..Len(cl)
        /\ \A i \in 1..Len(lams) :
               /\ cl[i].cs_id \in DOMAIN cstab
               /\ ShapeOf(cstab[cl[i].cs_id]) = SkeletonSeq(h, h[h[lams[i]].left].right)

C32_DeltaTableIntegrity ==
    [][(pc = "standardized" /\ machine' = 1 /\ pc' = "running") =>
        TableIntegrity(nodes, root, closures', control_structures')]_vars

(* the table of `let rec f n = n eq 0 -> 1 | n * f (n-1) in f 5`: a lambda *)
(* whose body is a conditional, inside another lambda, beside the lambda  *)
(* of the let                                                              *)
C32_Witness ==
    /\ prog = Named("fact 5")
    /\ machine = 1
    /\ pc = "running"
    /\ steps = 0
    /\ Len(closures) = 3
    /\ DOMAIN control_structures = 0..5
    /\ Len(Lambdas(nodes, root)) = 3

(***************************************************************************)
(* C34: stuck states.  In any state where the top of C, together with the  *)
(* top of V, matches none of Rules 1-13, apply_rule raises an error and    *)
(* leaves the control stack, the value stack and the environment stack     *)
(* exactly as they were; in every other state exactly one rule is applied. *)
(* Matches(k, cs, vs, cl) is the condition under which Rule k applies:     *)
(* Rule 10 asks for a tuple on top of V and an integer below it, and a     *)
(* boolean is not an integer.                                              *)
(***************************************************************************)
Matches(k, cs, vs, cl) ==
    LET c == Top(cs)
        v == Top(vs)
        gamma == IsWord(c, "gamma") /\ vs # <<>>
    IN  IF k = 1 THEN \/ IsCtlStr(c) /\ c.t \in {"ID", "INT", "STR"}
                      \/ IsCtlStr(c) /\ c.t = "KW"
                            /\ c.w \in {"true", "false", "nil", "dummy", "Y_star"}
        ELSE IF k = 2 THEN IsObj(c, "Closure")
        ELSE IF k = 3 THEN gamma /\ IsObj(v, "BuiltinFunction")
        ELSE IF k = 4 THEN gamma /\ IsObj(v, "Closure") /\ cl[v.ref].type = "lambda"
        ELSE IF k = 5 THEN IsObj(c, "Environment")
        ELSE IF k = 6 THEN IsCtlStr(c) /\ c.t = "KW" /\ c.w \in BinaryOps
        ELSE IF k = 7 THEN IsCtlStr(c) /\ c.t = "KW" /\ c.w \in {"not", "neg"}
        ELSE IF k = 8 THEN IsWord(c, "beta")
        ELSE IF k = 9 THEN IsCtlStr(c) /\ c.t = "TAU"
        ELSE IF k = 10 THEN /\ gamma
                            /\ IsObj(v, "Tuple")
                            /\ Len(vs) >= 2
                            /\ IsObj(vs[Len(vs) - 1], "int")
        ELSE IF k = 12 THEN gamma /\ IsStrEq(v, Y_STAR)
        ELSE IF k = 13 THEN gamma /\ IsObj(v, "Closure") /\ cl[v.ref].type = "eta"
        ELSE FALSE

MatchingRules(cs, vs, cl) == {k \in 1..13 : Matches(k, cs, vs, cl)}

C34_StuckStates ==
    [][(pc = "running" /\ control_stack # <<>> /\ steps' = steps + 1) =>
        LET rules == MatchingRules(control_stack, value_stack, closures)
        IN  IF rules = {}
            THEN /\ pc' = "raised"
                 /\ error' # ""
                 /\ control_stack' = control_stack
                 /\ value_stack' = value_stack
                 /\ env_stack' = env_stack
            ELSE /\ Cardinality(rules) = 1
                 /\ rule' \in rules]_vars

(***************************************************************************)
(* The rewrites of the standardizer, one node at a time.  The walk is      *)
(* bottom-up: when node n is rewritten its children and its next siblings  *)
(* have been standardized.  BeforeRewrite(h, n) is the heap at that point; *)
(* each rewrite is applied to every node of every program's tree.          *)
(***************************************************************************)
BeforeRewrite(h, n) ==
    LET l == standardize_bottom_up(h, h[n].left)
        a == [l.h EXCEPT ![n].left = l.id]
        r == standardize_bottom_up(a, a[n].right)
    IN  [r.h EXCEPT ![n].right = r.id]

(* node n of h has exactly the children kids *)
HasChildren(h, n, kids) == get_all_children(h, n) = kids

(* the nodes of h other than those of the set changed are as in h0 *)
OnlyChanged(h0, h, changed) ==
    \A m \in 1..Len(h0) : m \notin changed => h[m] = h0[m]

(* node m keeps its tag and its children's head *)
KeepsSubtree(h0, h, m) == h[m].value = h0[m].value /\ h[m].left = h0[m].left

(* r is gamma(lambda(x, P), E) in place of node n of h0 *)
IsGammaLambda(h0, n, r, x_node, p_node, e_node) ==
    LET g == r.id
        lam == r.h[g].left
    IN  /\ g > Len(h0)
        /\ IsKw(r.h[g].value, "gamma")
        /\ lam > Len(h0)
        /\ IsKw(r.h[lam].value, "lambda")
        /\ HasChildren(r.h, lam, <<x_node, p_node>>)
        /\ HasChildren(r.h, g, <<lam, e_node>>)
        /\ r.h[g].right = h0[n].right
        /\ OnlyChanged(h0, r.h, {x_node, p_node, e_node})
        /\ KeepsSubtree(h0, r.h, x_node)
        /\ KeepsSubtree(h0, r.h, p_node)
        /\ KeepsSubtree(h0, r.h, e_node)

(* a 'let' node with the children '='(x, E), P *)
IsLetOfDef(h, n) ==
    /\ IsKw(h[n].value, "let")
    /\ Len(get_all_children(h, n)) = 2
    /\ IsKw(h[h[n].left].value, "=")
    /\ Len(get_all_children(h, h[n].left)) = 2

(* a 'where' node with the children P, '='(x, E) *)
IsWhereOfDef(h, n) ==
    /\ IsKw(h[n].value, "where")
    /\ Len(get_all_children(h, n)) = 2
    /\ IsKw(h[h[h[n].left].right].value, "=")
    /\ Len(get_all_children(h, h[h[n].left].right)) = 2

LetRewritten(h, n) ==
    LET eq == h[n].left
        x == h[eq].left
    IN  IsGammaLambda(h, n, standardize_let(h, n), x, h[eq].right, h[x].right)

WhereRewritten(h, n) ==
    LET p_node == h[n].left
        x == h[h[p_node].right].left
    IN  IsGammaLambda(h, n, standardize_where(h, n), x, p_node, h[x].right)

(* C35: `let` and `where` standardize to the same shape: a let node with   *)
(* children '='(x, E), P and a where node with children P, '='(x, E) are   *)
(* both rewritten to gamma(lambda(x, P), E), where lambda has exactly the  *)
(* children x then P, gamma has exactly the children lambda then E, and    *)
(* the new gamma keeps the next-sibling link of the node it replaces.      *)
C35_LetAndWhere ==
    pc = "parsed" =>
        \A n \in TreeNodes(nodes, root) :
            LET h == BeforeRewrite(nodes, n)
            IN  /\ IsLetOfDef(h, n) => LetRewritten(h, n)
                /\ IsWhereOfDef(h, n) => WhereRewritten(h, n)

(* `(x + 1 where x = 2) + 2` has been standardized: the first operand of   *)
(* + is gamma(lambda(x, x + 1), 2) and its next sibling is the operand 2   *)
C35_Witness ==
    /\ prog = Named("where sibling")
    /\ pc = "standardized"
    /\ IsKw(nodes[root].value, "+")
    /\ LET g == nodes[root].left
           lam == nodes[g].left
       IN  /\ IsKw(nodes[g].value, "gamma")
           /\ IsKw(nodes[lam].value, "lambda")
           /\ Len(get_all_children(nodes, lam)) = 2
           /\ nodes[nodes[lam].left].value = ID("x")
           /\ IsKw(nodes[nodes[nodes[lam].left].right].value, "+")
           /\ nodes[nodes[lam].right].value = INT(<<"2">>)
           /\ nodes[nodes[g].right].value = INT(<<"2">>)
           /\ nodes[g].right # nodes[lam].right

(***************************************************************************)
(* C36: currying of parameters.  A function_form node with children P,     *)
(* V1 ... Vn, E (n >= 1) becomes '='(P, lambda(V1, lambda(V2, ...          *)
(* lambda(Vn, E)...))) and a surface lambda with n >= 2 bound variables    *)
(* becomes the same right-nested chain, with the parameters in their       *)
(* original left-to-right order from the outermost lambda inwards and E as *)
(* the body of the innermost lambda.                                       *)
(***************************************************************************)
(* lam is lambda(vs[i], lambda(vs[i+1], ... lambda(vs[n], e)...)), made of *)
(* nodes that h0 did not have                                              *)
RECURSIVE IsCurried(_, _, _, _, _, _)
IsCurried(h0, h, lam, vs, i, e) ==
    /\ lam > Len(h0)
    /\ IsKw(h[lam].value, "lambda")
    /\ KeepsSubtree(h0, h, vs[i])
    /\ IF i = Len(vs)
       THEN HasChildren(h, lam, <<vs[i], e>>) /\ KeepsSubtree(h0, h, e)
       ELSE /\ HasChildren(h, lam, <<vs[i], h[vs[i]].right>>)
            /\ IsCurried(h0, h, h[vs[i]].right, vs, i + 1, e)

FunctionFormRewritten(h, n) ==
    LET children == get_all_children(h, n)
        r == standardize_function_form(h, n)
        lam == r.h[children[1]].right
    IN  /\ r.id > Len(h)
        /\ IsKw(r.h[r.id].value, "=")
        /\ HasChildren(r.h, r.id, <<children[1], lam>>)
        /\ KeepsSubtree(h, r.h, children[1])
        /\ IsCurried(h, r.h, lam, SubSeq(children, 2, Len(children) - 1), 1,
                     children[Len(children)])

LambdaRewritten(h, n) ==
    LET children == get_all_children(h, n)
        r == standardize_multi_param_function(h, n)
    IN  IsCurried(h, r.h, r.id, SubSeq(children, 1, Len(children) - 1), 1,
                  children[Len(children)])

C36_Currying ==
    pc = "parsed" =>
        \A n \in TreeNodes(nodes, root) :
            LET h == BeforeRewrite(nodes, n)
            IN  /\ (IsKw(h[n].value, "function_form") /\ Len(get_all_children(h, n)) >= 3)
                       => FunctionFormRewritten(h, n)
                /\ (IsKw(h[n].value, "lambda") /\ Len(get_all_children(h, n)) >= 3)
                       => LambdaRewritten(h, n)

(* `let f x y z = x - y - z in f 7 2 1` has been evaluated: with x, y, z   *)
(* bound in this order the result is 4                                     *)
C36_Witness ==
    /\ prog = Named("f x y z")
    /\ machine = 1
    /\ pc = "returned"
    /\ result = IntV(4)

(***************************************************************************)
(* C37: within.  A within node with children '='(x1, E1), '='(x2, E2)      *)
(* becomes '='(x2, gamma(lambda(x1, E2), E1)), so that x1 is bound to the  *)
(* value of E1 only inside E2 and the definition exported by the result is *)
(* that of x2 alone: after `let x = 1 within y = x + 1` the name y is 2    *)
(* and the name x is not bound.                                            *)
(***************************************************************************)
IsWithinOfDefs(h, n) ==
    /\ IsKw(h[n].value, "within")
    /\ Len(get_all_children(h, n)) = 2
    /\ IsKw(h[h[n].left].value, "=")
    /\ IsKw(h[h[h[n].left].right].value, "=")
    /\ Len(get_all_children(h, h[n].left)) = 2
    /\ Len(get_all_children(h, h[h[n].left].right)) = 2

WithinRewritten(h, n) ==
    LET x1 == h[h[n].left].left
        e1 == h[x1].right
        x2 == h[h[h[n].left].right].left
        e2 == h[x2].right
        r == standardize_within(h, n)
        g == r.h[x2].right
        lam == r.h[g].left
    IN  /\ r.id > Len(h)
        /\ IsKw(r.h[r.id].value, "=")
        /\ HasChildren(r.h, r.id, <<x2, g>>)
        /\ g > Len(h)
        /\ IsKw(r.h[g].value, "gamma")
        /\ HasChildren(r.h, g, <<lam, e1>>)
        /\ lam > Len(h)
        /\ IsKw(r.h[lam].value, "lambda")
        /\ HasChildren(r.h, lam, <<x1, e2>>)
        /\ OnlyChanged(h, r.h, {x1, x2})
        /\ KeepsSubtree(h, r.h, x1)
        /\ KeepsSubtree(h, r.h, x2)

C37_Within ==
    /\ pc = "parsed" =>
           \A n \in TreeNodes(nodes, root) :
               LET h == BeforeRewrite(nodes, n)
               IN  IsWithinOfDefs(h, n) => WithinRewritten(h, n)
    /\ (prog = Named("within exported") /\ machine = 1 /\ Ended) =>
           (pc = "returned" /\ result = IntV(2))
    /\ (prog = Named("within hidden") /\ machine = 1 /\ Ended) =>
           (pc = "raised" /\ error = "NameError")

(* `let x = 1 within y = x + 1 in x` has ended: x is not bound in the body *)
C37_Witness ==
    /\ prog = Named("within hidden")
    /\ machine = 1
    /\ pc = "raised"
    /\ error = "NameError"
    /\ Top(control_stack) = ID("x")

(***************************************************************************)
(* C38: simultaneous definitions.  An and node with children '='(x1, E1)   *)
(* ... '='(xn, En) (n >= 2) becomes '='(','(x1 ... xn), tau(E1 ... En)),   *)
(* in which the names and the expressions keep their original order and    *)
(* correspond position by position, so that `let x = 1 and y = 2 in x + y` *)
(* evaluates to 3.                                                         *)
(***************************************************************************)
IsAndOfDefs(h, n) ==
    LET children == get_all_children(h, n)
    IN  /\ IsKw(h[n].value, "and")
        /\ Len(children) >= 2
        /\ \A i \in 1..Len(children) :
               /\ IsKw(h[children[i]].value, "=")
               /\ Len(get_all_children(h, children[i])) = 2

AndRewritten(h, n) ==
    LET children == get_all_children(h, n)
        xs == [i \in 1..Len(children) |-> h[children[i]].left]
        es == [i \in 1..Len(children) |-> h[h[children[i]].left].right]
        r == standardize_simultaneous_defs(h, n)
        comma == r.h[r.id].left
        tau == r.h[comma].right
    IN  /\ r.id > Len(h)
        /\ IsKw(r.h[r.id].value, "=")
        /\ HasChildren(r.h, r.id, <<comma, tau>>)
        /\ comma > Len(h)
        /\ IsKw(r.h[comma].value, ",")
        /\ HasChildren(r.h, comma, xs)
        /\ tau > Len(h)
        /\ IsKw(r.h[tau].value, "tau")
        /\ HasChildren(r.h, tau, es)
        /\ \A i \in 1..Len(children) :
               KeepsSubtree(h, r.h, xs[i]) /\ KeepsSubtree(h, r.h, es[i])

C38_SimultaneousDefinitions ==
    /\ pc = "parsed" =>
           \A n \in TreeNodes(nodes, root) :
               LET h == BeforeRewrite(nodes, n)
               IN  IsAndOfDefs(h, n) => AndRewritten(h, n)
    /\ (prog = Named("and") /\ machine = 1 /\ Ended) =>
           (pc = "returned" /\ result = IntV(3))
    /\ (prog = Named("and minus") /\ machine = 1 /\ Ended) =>
           (pc = "returned" /\ result = IntV(5))
    /\ (prog = Named("and three") /\ machine = 1 /\ Ended) =>
           (pc = "returned" /\ result = IntV(4))

(* `let x = 1 and y = 2 in x + y` has returned 3 *)
C38_Witness ==
    /\ prog = Named("and")
    /\ machine = 1
    /\ pc = "returned"
    /\ result = IntV(3)
    /\ \E n \in 1..Len(nodes) : IsKw(nodes[n].value, ",") /\ Len(get_all_children(nodes, n)) = 2

(***************************************************************************)
(* C39: rec.  A rec node with child '='(x, E) becomes '='(x', gamma(Y,     *)
(* lambda(x, E))) where x' is a newly created node that represents the     *)
(* same bound name as x (same tag and, for a ','-list of names, the same   *)
(* identifiers) but is a different node from the x used under the lambda,  *)
(* so no node is shared between two parents.                               *)
(***************************************************************************)
IsRecOfDef(h, n) ==
    /\ IsKw(h[n].value, "rec")
    /\ Len(get_all_children(h, n)) = 1
    /\ IsKw(h[h[n].left].value, "=")
    /\ Len(get_all_children(h, h[n].left)) = 2

(* the tags of the children of node m *)
ChildTags(h, m) ==
    LET kids == get_all_children(h, m)
    IN  [i \in 1..Len(kids) |-> h[kids[i]].value]

RecShape(h, n, r) ==
    LET x == h[h[n].left].left
        e == h[x].right
        xc == r.h[r.id].left
        g == r.h[xc].right
        y == r.h[g].left
        lam == r.h[y].right
    IN  /\ r.id > Len(h)
        /\ IsKw(r.h[r.id].value, "=")
        /\ HasChildren(r.h, r.id, <<xc, g>>)
        /\ IsKw(r.h[g].value, "gamma")
        /\ HasChildren(r.h, g, <<y, lam>>)
        /\ IsKw(r.h[y].value, "Y")
        /\ r.h[y].left = 0
        /\ IsKw(r.h[lam].value, "lambda")
        /\ HasChildren(r.h, lam, <<x, e>>)
        /\ KeepsSubtree(h, r.h, x)
        /\ KeepsSubtree(h, r.h, e)
        /\ xc > Len(h)
        /\ xc # x
        /\ r.h[xc].value = h[x].value

(* the copy names the identifiers that x names *)
RecCopyNames(h, n, r) ==
    ChildTags(r.h, r.h[r.id].left) = ChildTags(h, h[h[n].left].left)

C39_Rec ==
    pc = "parsed" =>
        \A n \in TreeNodes(nodes, root) :
            LET h == BeforeRewrite(nodes, n)
            IN  IsRecOfDef(h, n) =>
                    /\ RecShape(h, n, standardize_rec(h, n))
                    /\ RecCopyNames(h, n, standardize_rec(h, n))
=============================================================================
